---- MODULE Spec2Model ----
(***************************************************************************)
(* Sensor telemetry and fault-recovery loops of the labsense monitoring    *)
(* nodes: Labsense_Sensors/fumehood.py (distance and light monitor) and    *)
(* Labsense_Sensors/water-2taps.py (pulse-counting flow monitor).          *)
(*                                                                         *)
(* The main thread of either script is one process with a program counter  *)
(* pc and a stack of return labels.  An Optional[float] is a sequence:     *)
(* <<>> is None and <<v>> is the value v.                                  *)
(***************************************************************************)
EXTENDS Integers, Sequences, FiniteSets, TLC

\* ---------------------------------------------------------------- constants
ZERO_DISTANCE_REBOOT_THRESHOLD == 10
ZERO_LIGHT_REINIT_THRESHOLD == 5
DISTANCE_MIN_MM == 0
DISTANCE_MAX_MM == 4000
LIGHT_MIN_LUX == 0
LIGHT_MAX_LUX == 200000
max_consecutive_errors == 5
DEFAULT_RETRY_COUNT == 3
LAB_ID == 1
SUBLAB_ID == 3

\* ------------------------------------------------------------------- bounds
\* consecutive_zero_light has no upper limit in the code (it is not reset when
\* a zero-light recovery fails); a 0.0 lux reading is only drawn below this cap.
MaxZeroLight == 7
\* Number of SIGINT/SIGTERM deliveries in one run.
MaxSignals == 1
\* Largest retry_count a direct caller of publish_mqtt passes.
MaxRetryCount == 4

\* ------------------------------------------------------------ environment
None == <<>>
Some(v) == <<v>>

\* Values tof.get_distance() returns (mm): the degenerate 0, a value in range,
\* a value above DISTANCE_MAX_MM.
DistanceValues == {0, 1200, 4001}
\* Values ltr559.get_lux() returns: the degenerate 0, a value in range, a value
\* above LIGHT_MAX_LUX.
LuxValues == {0, 300, 200001}

Min(a, b) == IF a < b THEN a ELSE b

VARIABLES
    pc,                        \* position of the main thread
    stack,                     \* return labels of the calls in progress
    state,                     \* the module-level dict: tof, ltr559, shutdown_flag
    success,                   \* initialize_sensors' local
    ret,                       \* value returned by the last call that returned
    distance, lux,             \* this tick's readings (Optional[float])
    consecutive_errors,
    consecutive_zero_distance,
    consecutive_zero_light,
    msg_payload,               \* main's local: None, or the payload built last
    retry_count, attempt,      \* publish_mqtt's parameter and loop variable
    attempts, sleeps,          \* publish.single calls and 2 s sleeps of this call
    deliveries,                \* publish.single calls of this call that delivered
    zrun,                      \* consecutive 0.0 readings before this tick's, per class
    last_recovery,             \* outcome of a recover_sensors call not yet followed by a read or a reboot
    reboots,                   \* times the reboot command was run
    tof_closes,                \* stop_ranging/close rounds on the current tof handle
    signals,                   \* signals delivered
    exit_code,                 \* "running", or the exit status
    \* water-2taps.py
    gpio_initialized,          \* the module-level flag
    gpio_pins,                 \* channels GPIO.setup has configured and GPIO.cleanup has not released
    events_on,                 \* add_event_detect has registered countPulse
    shutdown_flag,             \* the threading.Event
    count,                     \* the pulse counter
    current_count,             \* gpio_monitoring's local
    temp_volume_val,           \* the latest per-second rate
    total_volume_val,
    vol_arr, i,                \* total_volume's locals
    water_volume,              \* main's local
    mon_pc,                    \* position of the gpio_monitoring thread
    win_stored,                \* sum of the rates gpio_monitoring stored during the window in progress
    skew,                      \* window reads minus sampler stores since the window began
    \* ChemInventory_sqlserver.py, sizes_to_litres
    size_list, unit_list,      \* the arguments
    converted_volumes, skipped,
    zip_pos,                   \* pairs zip has yielded
    result,                    \* the (total_litres, skipped_count) returned
    \* sql_helpers.py, maybe_insert
    environ,                   \* os.environ: each variable None (unset) or its value
    category, new_row, connection_string,
    enabled,                   \* the parameter, then the resolved toggle
    insert_calls,              \* the calls of insert_to_sql, with their arguments
    enabled_arg,               \* the enabled argument as the caller passed it
    \* processWasteMaster.py, compute_hp_volume
    df,                        \* the rows of the frame: Size, Unit and the HP flags
    volume_l,                  \* the volume_l column
    allocated,                 \* per row, the volume allocated to each HP column
    res_df,                    \* per HP column, the summed Volume(L)
    \* water-2taps.py, countPulse and gpio_monitoring step by step
    count_lock,                \* "free", or the thread that holds the lock
    cb_pc,                     \* position of the callback thread
    cb_count,                  \* the value of count the callback has loaded
    detected,                  \* falling edges countPulse was called for
    taken,                     \* sum of the counts the sampler has read and reset
    \* Azure-Stream-Water-Schedule.py
    local_count,               \* the name count inside gpio_monitoring
    tick_pulses,               \* pulses countPulse registered during the sleep in progress
    \* subscriber_sqlserver.py and subscriber.py
    message,                   \* msg.payload of the message being delivered, as tokens
    published,                 \* the payloads fumehood.py published, with their timestamps
    handled,                   \* per subscriber, whether on_message has run for the message
    fumehood_rows,             \* per subscriber, the rows INSERT INTO fumehood has added
    insert_errors,             \* per subscriber, the INSERTs the database refused
    \* fumehood.py, module configuration
    config                     \* whether .env exists, and MQTT_SERVER as os.getenv gives it

vars == <<pc, stack, state, success, ret, distance, lux, consecutive_errors,
          consecutive_zero_distance, consecutive_zero_light, msg_payload,
          retry_count, attempt, attempts, sleeps, deliveries, zrun, last_recovery, reboots,
          tof_closes, signals, exit_code, gpio_initialized, gpio_pins, events_on,
          shutdown_flag, count, current_count, temp_volume_val, total_volume_val,
          vol_arr, i, water_volume, mon_pc, win_stored, skew, size_list, unit_list,
          converted_volumes, skipped, zip_pos, result, environ, category, new_row,
          connection_string, enabled, insert_calls, enabled_arg, df, volume_l,
          allocated, res_df, count_lock, cb_pc, cb_count, detected, taken,
          local_count, tick_pulses, message, published, handled, fumehood_rows,
          insert_errors, config>>

\* Groups for UNCHANGED.
counters == <<consecutive_errors, consecutive_zero_distance, consecutive_zero_light>>
readings == <<distance, lux>>
pubvars == <<retry_count, attempt, attempts, sleeps, deliveries>>
ghosts == <<zrun, last_recovery, reboots, signals>>
\* What only fumehood.py has, and what only water-2taps.py has.
fume == <<state, success, distance, lux, consecutive_zero_distance,
          consecutive_zero_light, zrun, last_recovery, reboots, tof_closes>>
sampler == <<count, current_count, temp_volume_val, mon_pc>>
window == <<total_volume_val, vol_arr, i, water_volume, win_stored, skew>>
gpio == <<gpio_initialized, gpio_pins, events_on, shutdown_flag>>
water == <<gpio, sampler, window>>
\* What the sensor nodes have, apart from pc.
nodes == <<stack, state, success, ret, readings, counters, msg_payload, pubvars,
           ghosts, tof_closes, exit_code, water>>
\* What the functions checked on their own have.
chem == <<size_list, unit_list, converted_volumes, skipped, zip_pos, result>>
sqlh == <<environ, category, new_row, connection_string, enabled, insert_calls,
          enabled_arg>>
waste == <<df, volume_l, allocated, res_df>>
pulse == <<count_lock, cb_pc, cb_count, detected, taken>>
tap == <<local_count, tick_pulses>>
subs == <<message, published, handled, fumehood_rows, insert_errors>>
startup == <<config>>
batch == <<chem, sqlh, waste, pulse, tap, subs, startup>>
\* Everything but pc and one script's own variables.
but_chem == <<nodes, sqlh, waste, pulse, tap, subs, startup>>
but_sqlh == <<nodes, chem, waste, pulse, tap, subs, startup>>
but_waste == <<nodes, chem, sqlh, pulse, tap, subs, startup>>
but_subs == <<nodes, chem, sqlh, waste, pulse, tap, startup>>

\* ------------------------------------------------------------ fumehood.py

\* Variant: the lower bound is exclusive, so a reading of exactly the minimum
\* is rejected.
validate_distance_exclusive(d) ==
    IF d = None THEN FALSE
    ELSE IF d[1] <= DISTANCE_MIN_MM \/ d[1] > DISTANCE_MAX_MM THEN FALSE
    ELSE TRUE

\* validate_distance (fumehood.py 212-219)
validate_distance(d) ==
    IF d = None THEN FALSE
    ELSE IF d[1] < DISTANCE_MIN_MM \/ d[1] > DISTANCE_MAX_MM THEN FALSE
    ELSE TRUE

\* validate_light (fumehood.py 222-234)
validate_light(l) ==
    IF l = None THEN FALSE
    ELSE IF l[1] < LIGHT_MIN_LUX \/ l[1] > LIGHT_MAX_LUX THEN FALSE
    ELSE TRUE

\* The payload main builds (fumehood.py 377-390).  measureTimestamp is the age
\* of time_send in ticks: 0 for the tick in progress.
Payload(d, l) ==
    [labId |-> LAB_ID, sublabId |-> SUBLAB_ID,
     distance |-> IF validate_distance(d) THEN d[1] ELSE -1,
     light |-> IF validate_light(l) THEN l[1] ELSE -1,
     airflow |-> 0,
     measureTimestamp |-> 0]

\* A payload once a later tick has taken its own time_send.
Aged(p) == IF p = None THEN None ELSE Some([p[1] EXCEPT !.measureTimestamp = 1])

InitState == [tof |-> "None", ltr559 |-> "None", shutdown_flag |-> FALSE]

InitAt(label) ==
    /\ pc = label
    /\ stack = <<>>
    /\ state = InitState
    /\ success = TRUE
    /\ ret = FALSE
    /\ distance = None
    /\ lux = None
    /\ consecutive_errors = 0
    /\ consecutive_zero_distance = 0
    /\ consecutive_zero_light = 0
    /\ msg_payload = None
    /\ retry_count = 0
    /\ attempt = 0
    /\ attempts = 0
    /\ sleeps = 0
    /\ deliveries = 0
    /\ zrun = [d |-> 0, l |-> 0]
    /\ last_recovery = "none"
    /\ reboots = 0
    /\ tof_closes = 0
    /\ signals = 0
    /\ exit_code = "running"
    /\ gpio_initialized = FALSE
    /\ gpio_pins = 0
    /\ events_on = FALSE
    /\ shutdown_flag = FALSE
    /\ count = 0
    /\ current_count = 0
    /\ temp_volume_val = 0
    /\ total_volume_val = 0
    /\ vol_arr = <<>>
    /\ i = 0
    /\ water_volume = 0
    /\ mon_pc = "m_idle"
    /\ win_stored = 0
    /\ skew = 0
    /\ size_list = <<>>
    /\ unit_list = <<>>
    /\ converted_volumes = <<>>
    /\ skipped = 0
    /\ zip_pos = 0
    /\ result = <<0, 0>>
    /\ environ = [INSERT_TO_SQL |-> None, CHEMINVENTORY_INSERT_TO_SQL |-> None]
    /\ category = ""
    /\ new_row = <<>>
    /\ connection_string = None
    /\ enabled = None
    /\ insert_calls = <<>>
    /\ enabled_arg = None
    /\ df = <<>>
    /\ volume_l = <<>>
    /\ allocated = <<>>
    /\ res_df = <<>>
    /\ count_lock = "free"
    /\ cb_pc = "cb_idle"
    /\ cb_count = 0
    /\ detected = 0
    /\ taken = 0
    /\ local_count = 0
    /\ tick_pulses = 0
    /\ message = <<>>
    /\ published = <<>>
    /\ handled = [sqlserver |-> TRUE, sqlite |-> TRUE]
    /\ fumehood_rows = [sqlserver |-> <<>>, sqlite |-> <<>>]
    /\ insert_errors = [sqlserver |-> 0, sqlite |-> 0]
    /\ config = [env_exists |-> TRUE, MQTT_SERVER |-> <<"h", "o", "s", "t">>]

\* fumehood.py: the process as run() starts, nothing initialized.
Init == InitAt("run")

\* run() up to the call of initialize_sensors (fumehood.py 433-445)
Run ==
    /\ pc = "run"
    /\ pc' = "initialize_sensors"
    /\ stack' = <<"run_after_init">> \o stack
    /\ UNCHANGED <<state, success, ret, readings, counters, msg_payload, pubvars,
                   ghosts, tof_closes, exit_code>>
    /\ UNCHANGED water
    /\ UNCHANGED batch

\* initialize_sensors: success = True (fumehood.py 106-108)
InitializeSensors ==
    /\ pc = "initialize_sensors"
    /\ success' = TRUE
    /\ pc' = "init_tof"
    /\ UNCHANGED <<stack, state, ret, readings, counters, msg_payload, pubvars,
                   ghosts, tof_closes, exit_code>>
    /\ UNCHANGED water
    /\ UNCHANGED batch

\* Variant: when open() or start_ranging() raises, the except clause leaves the
\* constructed object in state["tof"].
InitTof_KeepsHandle ==
    /\ pc = "init_tof"
    /\ \E ok \in BOOLEAN :
         IF ok
         THEN /\ state' = [state EXCEPT !.tof = "dev"]
              /\ tof_closes' = 0
              /\ UNCHANGED success
         ELSE /\ state' = [state EXCEPT !.tof = "dev"]
              /\ success' = FALSE
              /\ tof_closes' = 0
    /\ pc' = "init_ltr"
    /\ UNCHANGED <<stack, ret, readings, counters, msg_payload, pubvars, ghosts,
                   exit_code>>
    /\ UNCHANGED water
    /\ UNCHANGED batch

\* The distance sensor's part of initialize_sensors (fumehood.py 110-113,
\* 119-138).  A missing VL53L1X module and a raising constructor, open() or
\* start_ranging() all leave state["tof"] None and success False.
InitTof ==
    /\ pc = "init_tof"
    /\ \E ok \in BOOLEAN :
         IF ok
         THEN /\ state' = [state EXCEPT !.tof = "dev"]
              /\ tof_closes' = 0
              /\ UNCHANGED success
         ELSE /\ state' = [state EXCEPT !.tof = "None"]
              /\ success' = FALSE
              /\ UNCHANGED tof_closes
    /\ pc' = "init_ltr"
    /\ UNCHANGED <<stack, ret, readings, counters, msg_payload, pubvars, ghosts,
                   exit_code>>
    /\ UNCHANGED water
    /\ UNCHANGED batch

\* The light sensor's part of initialize_sensors and its return
\* (fumehood.py 114-117, 140-151).
InitLtr ==
    /\ pc = "init_ltr"
    /\ \E ok \in BOOLEAN :
         IF ok
         THEN /\ state' = [state EXCEPT !.ltr559 = "dev"]
              /\ UNCHANGED success
         ELSE /\ state' = [state EXCEPT !.ltr559 = "None"]
              /\ success' = FALSE
    /\ ret' = success'
    /\ pc' = Head(stack)
    /\ stack' = Tail(stack)
    /\ UNCHANGED <<readings, counters, msg_payload, pubvars, ghosts, tof_closes,
                   exit_code>>
    /\ UNCHANGED water
    /\ UNCHANGED batch

\* cleanup_sensors: the test of state["tof"] (fumehood.py 154-156)
CleanupTest ==
    /\ pc = "cleanup_sensors"
    /\ pc' = IF state.tof # "None" THEN "cl_stop" ELSE "cl_ltr"
    /\ UNCHANGED <<stack, state, success, ret, readings, counters, msg_payload,
                   pubvars, ghosts, tof_closes, exit_code>>
    /\ UNCHANGED water
    /\ UNCHANGED batch

\* state["tof"].stop_ranging() (fumehood.py 157-158, 161-162): it returns, or
\* raises an error the except clause catches.
CleanupStop ==
    /\ pc = "cl_stop"
    /\ tof_closes' = Min(tof_closes + 1, 2)
    /\ \E raised \in BOOLEAN : pc' = IF raised THEN "cl_finally" ELSE "cl_close"
    /\ UNCHANGED <<stack, state, success, ret, readings, counters, msg_payload,
                   pubvars, ghosts, exit_code>>
    /\ UNCHANGED water
    /\ UNCHANGED batch

\* state["tof"].close() (fumehood.py 159-162)
CleanupClose ==
    /\ pc = "cl_close"
    /\ pc' = "cl_finally"
    /\ UNCHANGED <<stack, state, success, ret, readings, counters, msg_payload,
                   pubvars, ghosts, tof_closes, exit_code>>
    /\ UNCHANGED water
    /\ UNCHANGED batch

\* finally: state["tof"] = None (fumehood.py 163-164)
CleanupFinally ==
    /\ pc = "cl_finally"
    /\ state' = [state EXCEPT !.tof = "None"]
    /\ pc' = "cl_ltr"
    /\ UNCHANGED <<stack, success, ret, readings, counters, msg_payload, pubvars,
                   ghosts, tof_closes, exit_code>>
    /\ UNCHANGED water
    /\ UNCHANGED batch

\* state["ltr559"] = None and the return (fumehood.py 166-168)
CleanupLtr ==
    /\ pc = "cl_ltr"
    /\ state' = [state EXCEPT !.ltr559 = "None"]
    /\ pc' = Head(stack)
    /\ stack' = Tail(stack)
    /\ UNCHANGED <<success, ret, readings, counters, msg_payload, pubvars, ghosts,
                   tof_closes, exit_code>>
    /\ UNCHANGED water
    /\ UNCHANGED batch

\* Variant: run() exits when either sensor failed to initialize.
RunAfterInit_AnyFailure ==
    /\ pc = "run_after_init"
    /\ IF state.tof = "None" \/ state.ltr559 = "None"
       THEN pc' = "run_finally" /\ exit_code' = "1"
       ELSE pc' = "loop" /\ UNCHANGED exit_code
    /\ UNCHANGED <<stack, state, success, ret, readings, counters, msg_payload,
                   pubvars, ghosts, tof_closes>>
    /\ UNCHANGED water
    /\ UNCHANGED batch

\* run() after initialize_sensors: exit 1 with no sensor, else main()
\* (fumehood.py 447-458)
RunAfterInit ==
    /\ pc = "run_after_init"
    /\ IF state.tof = "None" /\ state.ltr559 = "None"
       THEN pc' = "run_finally" /\ exit_code' = "1"
       ELSE pc' = "loop" /\ UNCHANGED exit_code
    /\ UNCHANGED <<stack, state, success, ret, readings, counters, msg_payload,
                   pubvars, ghosts, tof_closes>>
    /\ UNCHANGED water
    /\ UNCHANGED batch

\* while not state["shutdown_flag"] (fumehood.py 310)
LoopTest ==
    /\ pc = "loop"
    /\ pc' = IF state.shutdown_flag THEN "main_done" ELSE "read_distance"
    /\ UNCHANGED <<stack, state, success, ret, readings, counters, msg_payload,
                   pubvars, ghosts, tof_closes, exit_code>>
    /\ UNCHANGED water
    /\ UNCHANGED batch

\* time_send = datetime.now(); distance = read_distance_sensor()
\* (fumehood.py 312-318, 179-192).  A caught read error gives None.
ReadDistance ==
    /\ pc = "read_distance"
    /\ IF state.tof = "None"
       THEN distance' = None
       ELSE \E r \in {None} \cup {Some(v) : v \in DistanceValues} : distance' = r
    /\ msg_payload' = Aged(msg_payload)
    /\ zrun' = [zrun EXCEPT
                  !.d = IF distance = Some(0)
                        THEN Min(@ + 1, ZERO_DISTANCE_REBOOT_THRESHOLD) ELSE 0]
    /\ last_recovery' = "none"
    /\ pc' = "read_light"
    /\ UNCHANGED <<stack, state, success, ret, lux, counters, pubvars, reboots,
                   signals, tof_closes, exit_code>>
    /\ UNCHANGED water
    /\ UNCHANGED batch

\* lux = read_light_sensor() (fumehood.py 319, 195-209)
ReadLight ==
    /\ pc = "read_light"
    /\ IF state.ltr559 = "None"
       THEN lux' = None
       ELSE \E r \in {None} \cup {Some(v) : v \in LuxValues} :
              /\ r = Some(0) => consecutive_zero_light < MaxZeroLight
              /\ lux' = r
    /\ zrun' = [zrun EXCEPT
                  !.l = IF lux = Some(0)
                        THEN Min(@ + 1, ZERO_LIGHT_REINIT_THRESHOLD) ELSE 0]
    /\ pc' = "eval_distance"
    /\ UNCHANGED <<stack, state, success, ret, distance, counters, msg_payload,
                   pubvars, last_recovery, reboots, signals, tof_closes, exit_code>>
    /\ UNCHANGED water
    /\ UNCHANGED batch

\* The zero-distance streak (fumehood.py 323-341), up to the call of
\* recover_sensors.
EvalDistance ==
    /\ pc = "eval_distance"
    /\ IF distance = Some(0)
       THEN /\ consecutive_zero_distance' = consecutive_zero_distance + 1
            /\ IF consecutive_zero_distance' >= ZERO_DISTANCE_REBOOT_THRESHOLD
               THEN pc' = "recover_sensors" /\ stack' = <<"rec_ret_d">> \o stack
               ELSE pc' = "eval_light" /\ UNCHANGED stack
       ELSE /\ consecutive_zero_distance' = 0
            /\ pc' = "eval_light"
            /\ UNCHANGED stack
    /\ UNCHANGED <<state, success, ret, readings, consecutive_errors,
                   consecutive_zero_light, msg_payload, pubvars, ghosts,
                   tof_closes, exit_code>>
    /\ UNCHANGED water
    /\ UNCHANGED batch

\* recover_sensors: the call of cleanup_sensors (fumehood.py 288-291)
RecoverSensors ==
    /\ pc = "recover_sensors"
    /\ pc' = "cleanup_sensors"
    /\ stack' = <<"rec_sleep">> \o stack
    /\ UNCHANGED <<state, success, ret, readings, counters, msg_payload, pubvars,
                   ghosts, tof_closes, exit_code>>
    /\ UNCHANGED water
    /\ UNCHANGED batch

\* time.sleep(2) and the call of initialize_sensors (fumehood.py 292-293)
RecoverSleep ==
    /\ pc = "rec_sleep"
    /\ pc' = "initialize_sensors"
    /\ stack' = <<"rec_after_init">> \o stack
    /\ UNCHANGED <<state, success, ret, readings, counters, msg_payload, pubvars,
                   ghosts, tof_closes, exit_code>>
    /\ UNCHANGED water
    /\ UNCHANGED batch

\* recover_sensors returns what initialize_sensors returned (fumehood.py 293-297)
RecoverReturn ==
    /\ pc = "rec_after_init"
    /\ last_recovery' = IF Head(stack) = "rec_ret_d"
                        THEN (IF ret THEN "d_ok" ELSE "d_fail")
                        ELSE (IF ret THEN "l_ok" ELSE "l_fail")
    /\ pc' = Head(stack)
    /\ stack' = Tail(stack)
    /\ UNCHANGED <<state, success, ret, readings, counters, msg_payload, pubvars,
                   zrun, reboots, signals, tof_closes, exit_code>>
    /\ UNCHANGED water
    /\ UNCHANGED batch

\* Variant: a failed zero-distance recovery is only logged, as the zero-light
\* branch does, and the tick goes on.
AfterDistanceRecovery_NoReboot ==
    /\ pc = "rec_ret_d"
    /\ IF ret
       THEN /\ consecutive_zero_distance' = 0
            /\ consecutive_errors' = 0
            /\ pc' = "loop"
       ELSE /\ pc' = "eval_light"
            /\ UNCHANGED <<consecutive_zero_distance, consecutive_errors>>
    /\ UNCHANGED <<stack, state, success, ret, readings, consecutive_zero_light,
                   msg_payload, pubvars, ghosts, tof_closes, exit_code>>
    /\ UNCHANGED water
    /\ UNCHANGED batch

\* After the zero-distance recovery (fumehood.py 331-339): reset and continue,
\* or reboot_pi and break.
AfterDistanceRecovery ==
    /\ pc = "rec_ret_d"
    /\ IF ret
       THEN /\ consecutive_zero_distance' = 0
            /\ consecutive_errors' = 0
            /\ pc' = "loop"
            /\ UNCHANGED stack
       ELSE /\ pc' = "reboot_pi"
            /\ stack' = <<"main_done">> \o stack
            /\ UNCHANGED <<consecutive_zero_distance, consecutive_errors>>
    /\ UNCHANGED <<state, success, ret, readings, consecutive_zero_light,
                   msg_payload, pubvars, ghosts, tof_closes, exit_code>>
    /\ UNCHANGED water
    /\ UNCHANGED batch

\* Variant: reboot_pi runs the reboot command without cleanup_sensors first.
RebootPi_NoCleanup ==
    /\ pc = "reboot_pi"
    /\ last_recovery' = "none"
    /\ pc' = "reboot_cmd"
    /\ UNCHANGED <<stack, state, success, ret, readings, counters, msg_payload,
                   pubvars, zrun, reboots, signals, tof_closes, exit_code>>
    /\ UNCHANGED water
    /\ UNCHANGED batch

\* reboot_pi: logger.critical and the call of cleanup_sensors (fumehood.py 278-281)
RebootPi ==
    /\ pc = "reboot_pi"
    /\ last_recovery' = "none"
    /\ pc' = "cleanup_sensors"
    /\ stack' = <<"reboot_cmd">> \o stack
    /\ UNCHANGED <<state, success, ret, readings, counters, msg_payload, pubvars,
                   zrun, reboots, signals, tof_closes, exit_code>>
    /\ UNCHANGED water
    /\ UNCHANGED batch

\* subprocess.run(["sudo", "reboot"]) and the return (fumehood.py 282-285)
RebootCommand ==
    /\ pc = "reboot_cmd"
    /\ reboots' = Min(reboots + 1, 2)
    /\ pc' = Head(stack)
    /\ stack' = Tail(stack)
    /\ UNCHANGED <<state, success, ret, readings, counters, msg_payload, pubvars,
                   zrun, last_recovery, signals, tof_closes, exit_code>>
    /\ UNCHANGED water
    /\ UNCHANGED batch

\* The zero-light streak (fumehood.py 344-360), up to the call of
\* recover_sensors.
EvalLight ==
    /\ pc = "eval_light"
    /\ IF lux = Some(0)
       THEN /\ consecutive_zero_light' = consecutive_zero_light + 1
            /\ IF consecutive_zero_light' >= ZERO_LIGHT_REINIT_THRESHOLD
               THEN pc' = "recover_sensors" /\ stack' = <<"rec_ret_l">> \o stack
               ELSE pc' = "validate" /\ UNCHANGED stack
       ELSE /\ consecutive_zero_light' = 0
            /\ pc' = "validate"
            /\ UNCHANGED stack
    /\ UNCHANGED <<state, success, ret, readings, consecutive_errors,
                   consecutive_zero_distance, msg_payload, pubvars, ghosts,
                   tof_closes, exit_code>>
    /\ UNCHANGED water
    /\ UNCHANGED batch

\* Variant: a successful zero-light recovery continues without resetting
\* consecutive_zero_light.
AfterLightRecovery_NoReset ==
    /\ pc = "rec_ret_l"
    /\ IF ret
       THEN /\ consecutive_errors' = 0
            /\ pc' = "loop"
       ELSE /\ pc' = "validate"
            /\ UNCHANGED consecutive_errors
    /\ UNCHANGED <<stack, state, success, ret, readings, consecutive_zero_distance,
                   consecutive_zero_light, msg_payload, pubvars, ghosts, tof_closes,
                   exit_code>>
    /\ UNCHANGED water
    /\ UNCHANGED batch

\* Variant: a failed zero-light recovery escalates to reboot_pi and break, as
\* the zero-distance branch does.
AfterLightRecovery_Reboot ==
    /\ pc = "rec_ret_l"
    /\ IF ret
       THEN /\ consecutive_zero_light' = 0
            /\ consecutive_errors' = 0
            /\ pc' = "loop"
            /\ UNCHANGED stack
       ELSE /\ pc' = "reboot_pi"
            /\ stack' = <<"main_done">> \o stack
            /\ UNCHANGED <<consecutive_zero_light, consecutive_errors>>
    /\ UNCHANGED <<state, success, ret, readings, consecutive_zero_distance,
                   msg_payload, pubvars, ghosts, tof_closes, exit_code>>
    /\ UNCHANGED water
    /\ UNCHANGED batch

\* After the zero-light recovery (fumehood.py 352-358): reset and continue, or
\* log the failure and go on with the tick.
AfterLightRecovery ==
    /\ pc = "rec_ret_l"
    /\ IF ret
       THEN /\ consecutive_zero_light' = 0
            /\ consecutive_errors' = 0
            /\ pc' = "loop"
       ELSE /\ pc' = "validate"
            /\ UNCHANGED <<consecutive_zero_light, consecutive_errors>>
    /\ UNCHANGED <<stack, state, success, ret, readings, consecutive_zero_distance,
                   msg_payload, pubvars, ghosts, tof_closes, exit_code>>
    /\ UNCHANGED water
    /\ UNCHANGED batch

\* Variant: a message is built only when both readings are valid.
Validate_BothValid ==
    /\ pc = "validate"
    /\ IF validate_distance(distance) /\ validate_light(lux)
       THEN /\ msg_payload' = Some(Payload(distance, lux))
            /\ retry_count' = DEFAULT_RETRY_COUNT
            /\ pc' = "publish_mqtt"
            /\ stack' = <<"pub_ret">> \o stack
            /\ UNCHANGED consecutive_errors
       ELSE /\ consecutive_errors' = consecutive_errors + 1
            /\ pc' = "check_errors"
            /\ UNCHANGED <<msg_payload, retry_count, stack>>
    /\ UNCHANGED <<state, success, ret, readings, consecutive_zero_distance,
                   consecutive_zero_light, attempt, attempts, sleeps, deliveries,
                   ghosts, tof_closes, exit_code>>
    /\ UNCHANGED water
    /\ UNCHANGED batch

\* Validation and the decision to publish (fumehood.py 372-405), up to the
\* call publish_mqtt(msg_payload).
Validate ==
    /\ pc = "validate"
    /\ IF validate_distance(distance) \/ validate_light(lux)
       THEN /\ msg_payload' = Some(Payload(distance, lux))
            /\ retry_count' = DEFAULT_RETRY_COUNT
            /\ pc' = "publish_mqtt"
            /\ stack' = <<"pub_ret">> \o stack
            /\ UNCHANGED consecutive_errors
       ELSE /\ consecutive_errors' = consecutive_errors + 1
            /\ pc' = "check_errors"
            /\ UNCHANGED <<msg_payload, retry_count, stack>>
    /\ UNCHANGED <<state, success, ret, readings, consecutive_zero_distance,
                   consecutive_zero_light, attempt, attempts, sleeps, deliveries,
                   ghosts, tof_closes, exit_code>>
    /\ UNCHANGED water
    /\ UNCHANGED batch

\* publish_mqtt: entry (fumehood.py 237-239, water-2taps.py 212-214)
PublishMqtt ==
    /\ pc = "publish_mqtt"
    /\ attempt' = 0
    /\ attempts' = 0
    /\ sleeps' = 0
    /\ deliveries' = 0
    /\ pc' = "pub_for"
    /\ UNCHANGED <<stack, state, success, ret, readings, counters, msg_payload,
                   retry_count, ghosts, tof_closes, exit_code>>
    /\ UNCHANGED water
    /\ UNCHANGED batch

\* for attempt in range(1, retry_count + 1), and return False when the range
\* is exhausted (fumehood.py 239, 275)
PublishFor ==
    /\ pc = "pub_for"
    /\ IF attempt < retry_count
       THEN /\ attempt' = attempt + 1
            /\ pc' = "pub_try"
            /\ UNCHANGED <<ret, stack>>
       ELSE /\ ret' = FALSE
            /\ pc' = Head(stack)
            /\ stack' = Tail(stack)
            /\ UNCHANGED attempt
    /\ UNCHANGED <<state, success, readings, counters, msg_payload, retry_count,
                   attempts, sleeps, deliveries, ghosts, tof_closes, exit_code>>
    /\ UNCHANGED water
    /\ UNCHANGED batch

\* publish.single(...): delivered, return True; or an error one of the except
\* clauses catches (fumehood.py 240-270)
PublishTry ==
    /\ pc = "pub_try"
    /\ attempts' = attempts + 1
    /\ \E delivered \in BOOLEAN :
         IF delivered
         THEN /\ deliveries' = deliveries + 1
              /\ ret' = TRUE
              /\ pc' = Head(stack)
              /\ stack' = Tail(stack)
         ELSE /\ pc' = "pub_backoff"
              /\ UNCHANGED <<deliveries, ret, stack>>
    /\ UNCHANGED <<state, success, readings, counters, msg_payload, retry_count,
                   attempt, sleeps, ghosts, tof_closes, exit_code>>
    /\ UNCHANGED water
    /\ UNCHANGED batch

\* Variant: the 2 s sleep follows every failed attempt, the last one included.
PublishBackoff_Always ==
    /\ pc = "pub_backoff"
    /\ sleeps' = sleeps + 1
    /\ pc' = "pub_for"
    /\ UNCHANGED <<stack, state, success, ret, readings, counters, msg_payload,
                   retry_count, attempt, attempts, deliveries, ghosts, tof_closes,
                   exit_code>>
    /\ UNCHANGED water
    /\ UNCHANGED batch

\* if attempt < retry_count: time.sleep(2) (fumehood.py 272-273)
PublishBackoff ==
    /\ pc = "pub_backoff"
    /\ sleeps' = IF attempt < retry_count THEN sleeps + 1 ELSE sleeps
    /\ pc' = "pub_for"
    /\ UNCHANGED <<stack, state, success, ret, readings, counters, msg_payload,
                   retry_count, attempt, attempts, deliveries, ghosts, tof_closes,
                   exit_code>>
    /\ UNCHANGED water
    /\ UNCHANGED batch

\* Variant: a failed publish_mqtt adds one per attempt made instead of one per
\* call.
AfterPublish_PerAttempt ==
    /\ pc = "pub_ret"
    /\ consecutive_errors' = IF ret THEN 0 ELSE consecutive_errors + attempts
    /\ pc' = "check_errors"
    /\ UNCHANGED <<stack, state, success, ret, readings, consecutive_zero_distance,
                   consecutive_zero_light, msg_payload, pubvars, ghosts,
                   tof_closes, exit_code>>
    /\ UNCHANGED water
    /\ UNCHANGED batch

\* The publish-failure counter after publish_mqtt (fumehood.py 392-400)
AfterPublish ==
    /\ pc = "pub_ret"
    /\ consecutive_errors' = IF ret THEN 0 ELSE consecutive_errors + 1
    /\ pc' = "check_errors"
    /\ UNCHANGED <<stack, state, success, ret, readings, consecutive_zero_distance,
                   consecutive_zero_light, msg_payload, pubvars, ghosts,
                   tof_closes, exit_code>>
    /\ UNCHANGED water
    /\ UNCHANGED batch

\* Variant: too many consecutive errors end the loop.
CheckErrors_Break ==
    /\ pc = "check_errors"
    /\ IF consecutive_errors >= max_consecutive_errors
       THEN consecutive_errors' = 0 /\ pc' = "main_done"
       ELSE UNCHANGED consecutive_errors /\ pc' = "sleep"
    /\ UNCHANGED <<stack, state, success, ret, readings, consecutive_zero_distance,
                   consecutive_zero_light, msg_payload, pubvars, ghosts,
                   tof_closes, exit_code>>
    /\ UNCHANGED water
    /\ UNCHANGED batch

\* Too many consecutive errors: log and reset (fumehood.py 407-414)
CheckErrors ==
    /\ pc = "check_errors"
    /\ consecutive_errors' = IF consecutive_errors >= max_consecutive_errors
                             THEN 0 ELSE consecutive_errors
    /\ pc' = "sleep"
    /\ UNCHANGED <<stack, state, success, ret, readings, consecutive_zero_distance,
                   consecutive_zero_light, msg_payload, pubvars, ghosts,
                   tof_closes, exit_code>>
    /\ UNCHANGED water
    /\ UNCHANGED batch

\* await asyncio.sleep(MEASUREMENT_INTERVAL) (fumehood.py 416-417)
Sleep ==
    /\ pc = "sleep"
    /\ pc' = "loop"
    /\ UNCHANGED <<stack, state, success, ret, readings, counters, msg_payload,
                   pubvars, ghosts, tof_closes, exit_code>>
    /\ UNCHANGED water
    /\ UNCHANGED batch

\* main() returns to run() (fumehood.py 430, 458)
MainDone ==
    /\ pc = "main_done"
    /\ pc' = "run_finally"
    /\ UNCHANGED <<stack, state, success, ret, readings, counters, msg_payload,
                   pubvars, ghosts, tof_closes, exit_code>>
    /\ UNCHANGED water
    /\ UNCHANGED batch

\* run()'s finally: the call of cleanup_sensors (fumehood.py 465-467)
RunFinally ==
    /\ pc = "run_finally"
    /\ pc' = "cleanup_sensors"
    /\ stack' = <<"run_exit">>
    /\ UNCHANGED <<state, success, ret, readings, counters, msg_payload, pubvars,
                   ghosts, tof_closes, exit_code>>
    /\ UNCHANGED water
    /\ UNCHANGED batch

\* "Script terminated" and the end of the process (fumehood.py 468)
RunExit ==
    /\ pc = "run_exit"
    /\ pc' = "terminated"
    /\ exit_code' = IF exit_code = "running" THEN "0" ELSE exit_code
    /\ UNCHANGED <<stack, state, success, ret, readings, counters, msg_payload,
                   pubvars, ghosts, tof_closes>>
    /\ UNCHANGED water
    /\ UNCHANGED batch

\* Whether the main thread is inside run()'s finally clause.
InFinally == pc = "run_exit" \/ (stack # <<>> /\ stack[Len(stack)] = "run_exit")

FumehoodLabels ==
    {"run", "initialize_sensors", "init_tof", "init_ltr", "cleanup_sensors",
     "cl_stop", "cl_close", "cl_finally", "cl_ltr", "run_after_init", "loop",
     "read_distance", "read_light", "eval_distance", "recover_sensors",
     "rec_sleep", "rec_after_init", "rec_ret_d", "reboot_pi", "reboot_cmd",
     "eval_light", "rec_ret_l", "validate", "publish_mqtt", "pub_for", "pub_try",
     "pub_backoff", "pub_ret", "check_errors", "sleep", "main_done",
     "run_finally", "run_exit"}

\* A SIGINT or SIGTERM is delivered and signal_handler runs on the main thread,
\* between two of its steps (fumehood.py 171-176): the flag is set, the handler's
\* own cleanup_sensors runs on whatever state["tof"] holds, and sys.exit(0)
\* raises SystemExit at the interrupted step.  No except clause of main or run
\* catches it; it unwinds to run()'s finally clause, or out of the process when
\* the main thread was in that clause already.
SignalHandler ==
    /\ pc \in FumehoodLabels \ {"run"}
    /\ signals < MaxSignals
    /\ signals' = signals + 1
    /\ state' = [tof |-> "None", ltr559 |-> "None", shutdown_flag |-> TRUE]
    /\ tof_closes' = IF state.tof # "None" THEN Min(tof_closes + 1, 2) ELSE tof_closes
    /\ exit_code' = "0"
    /\ pc' = IF InFinally THEN "terminated" ELSE "run_finally"
    /\ stack' = <<>>
    /\ UNCHANGED <<success, ret, readings, counters, msg_payload, pubvars, zrun,
                   last_recovery, reboots>>
    /\ UNCHANGED water
    /\ UNCHANGED batch

FumehoodNext ==
    \/ Run \/ InitializeSensors \/ InitTof \/ InitLtr
    \/ CleanupTest \/ CleanupStop \/ CleanupClose \/ CleanupFinally \/ CleanupLtr
    \/ RunAfterInit \/ LoopTest \/ ReadDistance \/ ReadLight
    \/ EvalDistance \/ RecoverSensors \/ RecoverSleep \/ RecoverReturn
    \/ AfterDistanceRecovery \/ RebootPi \/ RebootCommand
    \/ EvalLight \/ AfterLightRecovery
    \/ Validate \/ PublishMqtt \/ PublishFor \/ PublishTry \/ PublishBackoff
    \/ AfterPublish \/ CheckErrors \/ Sleep
    \/ MainDone \/ RunFinally \/ RunExit
    \/ SignalHandler

Next == FumehoodNext

Spec == Init /\ [][Next]_vars

\* The steps of the main thread: everything but the delivery of a signal.
MainThread ==
    \/ Run \/ InitializeSensors \/ InitTof \/ InitLtr
    \/ CleanupTest \/ CleanupStop \/ CleanupClose \/ CleanupFinally \/ CleanupLtr
    \/ RunAfterInit \/ LoopTest \/ ReadDistance \/ ReadLight
    \/ EvalDistance \/ RecoverSensors \/ RecoverSleep \/ RecoverReturn
    \/ AfterDistanceRecovery \/ RebootPi \/ RebootCommand
    \/ EvalLight \/ AfterLightRecovery
    \/ Validate \/ PublishMqtt \/ PublishFor \/ PublishTry \/ PublishBackoff
    \/ AfterPublish \/ CheckErrors \/ Sleep
    \/ MainDone \/ RunFinally \/ RunExit

\* The main thread is a sequential program: a call returns, a sleep ends, and
\* the next statement runs.
SpecLive == Init /\ [][Next]_vars /\ WF_vars(MainThread)

\* ------------------------------------------------- publish_mqtt, called alone

\* Payloads a caller hands to publish_mqtt.
CallerPayloads == {Payload(Some(1200), Some(300)), Payload(Some(0), None)}

\* A caller's call publish_mqtt(msg_payload, retry_count) (fumehood.py 237)
PublishCall ==
    /\ pc = "pub_idle"
    /\ \E n \in 0..MaxRetryCount, p \in CallerPayloads :
         /\ retry_count' = n
         /\ msg_payload' = Some(p)
    /\ pc' = "publish_mqtt"
    /\ stack' = <<"pub_done">>
    /\ UNCHANGED <<state, success, ret, readings, counters, attempt, attempts,
                   sleeps, deliveries, ghosts, tof_closes, exit_code>>
    /\ UNCHANGED water
    /\ UNCHANGED batch

\* The caller has the call's result and is free to call again.
PublishDone ==
    /\ pc = "pub_done"
    /\ pc' = "pub_idle"
    /\ UNCHANGED <<stack, state, success, ret, readings, counters, msg_payload,
                   pubvars, ghosts, tof_closes, exit_code>>
    /\ UNCHANGED water
    /\ UNCHANGED batch

InitPublish == InitAt("pub_idle")

PublishNext ==
    \/ PublishCall \/ PublishDone
    \/ PublishMqtt \/ PublishFor \/ PublishTry \/ PublishBackoff

SpecPublish == InitPublish /\ [][PublishNext]_vars

\* ---------------------------------------------------------- water-2taps.py
FLOW_RATE_FACTOR == 5
MEASUREMENT_INTERVAL == 5
GPIO_CHANNELS == 3

\* Falling edges countPulse handles back to back, with no read-and-reset of the
\* sampler between them: the 600 pulses of one second at 2000 mL/min, for which
\* the rate below is a whole number, as the float division gives.
BurstSizes == {600}
\* No burst is drawn that takes count above this.
MaxCount == 600
\* At most this many more window reads than sampler stores, or the reverse,
\* since the window began: both loops sleep 1 s per iteration.
MaxSkew == 1

\* vol = (1000 * current_count) / (FLOW_RATE_FACTOR * 60) (water-2taps.py 144)
Rate(p) == (1000 * p) \div (FLOW_RATE_FACTOR * 60)

\* np.sum(vol_arr) (water-2taps.py 200)
RECURSIVE SeqSum(_)
SeqSum(q) == IF q = <<>> THEN 0 ELSE Head(q) + SeqSum(Tail(q))

\* The payload water-2taps.py builds (water-2taps.py 266-273)
WaterPayload(v) ==
    [labId |-> LAB_ID, sublabId |-> SUBLAB_ID, water |-> v, measureTimestamp |-> 0]

shared == <<ret, consecutive_errors, msg_payload, pubvars, signals, exit_code>>

\* initialize_gpio: setmode, three GPIO.setup calls, setwarnings
\* (water-2taps.py 81-89, 93-95).  k of the setup calls return before one raises;
\* with all three done the function goes on to set its flag, else it returns
\* False.
InitializeGpio ==
    /\ pc = "w_run"
    /\ \E k \in 0..GPIO_CHANNELS :
         /\ gpio_pins' = k
         /\ pc' = IF k = GPIO_CHANNELS THEN "w_init_flag" ELSE "w_init_failed"
    /\ UNCHANGED <<stack, shared, fume, gpio_initialized, events_on, shutdown_flag,
                   sampler, window>>
    /\ UNCHANGED batch

\* gpio_initialized = True; return True (water-2taps.py 90-92, 323)
InitializeGpioFlag ==
    /\ pc = "w_init_flag"
    /\ gpio_initialized' = TRUE
    /\ pc' = "w_start_monitoring"
    /\ UNCHANGED <<stack, shared, fume, gpio_pins, events_on, shutdown_flag,
                   sampler, window>>
    /\ UNCHANGED batch

\* initialize_gpio returned False: sys.exit(1) (water-2taps.py 323-325)
InitializeGpioFailed ==
    /\ pc = "w_init_failed"
    /\ exit_code' = "1"
    /\ pc' = "w_finally"
    /\ UNCHANGED <<stack, ret, consecutive_errors, msg_payload, pubvars, signals,
                   fume, water>>
    /\ UNCHANGED batch

\* start_gpio_monitoring (water-2taps.py 158-176, 328-329): the callbacks are
\* registered and the thread started, or a call raises and None is returned.
StartGpioMonitoring ==
    /\ pc = "w_start_monitoring"
    /\ \E ok \in BOOLEAN :
         IF ok
         THEN /\ events_on' = TRUE
              /\ mon_pc' = "m_loop"
              /\ pc' = "w_loop"
              /\ UNCHANGED stack
         ELSE /\ pc' = "cleanup_gpio"
              /\ stack' = <<"w_exit1">> \o stack
              /\ UNCHANGED <<events_on, mon_pc>>
    /\ UNCHANGED <<shared, fume, gpio_initialized, gpio_pins, shutdown_flag, count,
                   current_count, temp_volume_val, window>>
    /\ UNCHANGED batch

\* sys.exit(1) after the cleanup of a failed start (water-2taps.py 330-332)
StartFailedExit ==
    /\ pc = "w_exit1"
    /\ exit_code' = "1"
    /\ pc' = "w_finally"
    /\ UNCHANGED <<stack, ret, consecutive_errors, msg_payload, pubvars, signals,
                   fume, water>>
    /\ UNCHANGED batch

\* cleanup_gpio: GPIO.cleanup() when the flag is set (water-2taps.py 98-106)
CleanupGpio ==
    /\ pc = "cleanup_gpio"
    /\ IF gpio_initialized
       THEN /\ gpio_pins' = 0
            /\ events_on' = FALSE
            /\ pc' = "cg_finally"
            /\ UNCHANGED stack
       ELSE /\ pc' = Head(stack)
            /\ stack' = Tail(stack)
            /\ UNCHANGED <<gpio_pins, events_on>>
    /\ UNCHANGED <<shared, fume, gpio_initialized, shutdown_flag, sampler, window>>
    /\ UNCHANGED batch

\* finally: gpio_initialized = False (water-2taps.py 107-108)
CleanupGpioFinally ==
    /\ pc = "cg_finally"
    /\ gpio_initialized' = FALSE
    /\ pc' = Head(stack)
    /\ stack' = Tail(stack)
    /\ UNCHANGED <<shared, fume, gpio_pins, events_on, shutdown_flag, sampler,
                   window>>
    /\ UNCHANGED batch

\* countPulse, once per falling edge of a burst (water-2taps.py 119-126)
countPulse ==
    /\ events_on
    /\ pc # "w_terminated"
    /\ \E b \in BurstSizes :
         /\ count + b <= MaxCount
         /\ count' = count + b
    /\ UNCHANGED <<pc, stack, shared, fume, gpio, current_count, temp_volume_val,
                   mon_pc, window>>
    /\ UNCHANGED batch

\* Whether total_volume is inside its window.
InWindow == pc \in {"tv_for", "tv_sleep"}

\* gpio_monitoring: the loop test and the locked read-and-reset
\* (water-2taps.py 135-139)
MonitorRead ==
    /\ mon_pc = "m_loop"
    /\ pc # "w_terminated"
    /\ IF shutdown_flag
       THEN /\ mon_pc' = "m_stopped"
            /\ UNCHANGED <<count, current_count>>
       ELSE /\ current_count' = count
            /\ count' = 0
            /\ mon_pc' = "m_sleep"
    /\ UNCHANGED <<pc, stack, shared, fume, gpio, temp_volume_val, window>>
    /\ UNCHANGED batch

\* gpio_monitoring: time.sleep(1), then the rate is stored (water-2taps.py 141-146)
MonitorStore ==
    /\ mon_pc = "m_sleep"
    /\ pc # "w_terminated"
    /\ InWindow => skew > -MaxSkew
    /\ temp_volume_val' = Rate(current_count)
    /\ mon_pc' = "m_loop"
    /\ IF InWindow
       THEN /\ win_stored' = win_stored + temp_volume_val'
            /\ skew' = skew - 1
       ELSE UNCHANGED <<win_stored, skew>>
    /\ UNCHANGED <<pc, stack, shared, fume, gpio, count, current_count,
                   total_volume_val, vol_arr, i, water_volume>>
    /\ UNCHANGED batch

\* while not shutdown_flag.is_set(): total_volume(MEASUREMENT_INTERVAL)
\* (water-2taps.py 253-259)
WaterLoopTest ==
    /\ pc = "w_loop"
    /\ IF shutdown_flag
       THEN pc' = "w_main_done" /\ UNCHANGED stack
       ELSE pc' = "total_volume" /\ stack' = <<"w_after_volume">> \o stack
    /\ UNCHANGED <<shared, fume, water>>
    /\ UNCHANGED batch

\* total_volume up to its loop (water-2taps.py 179-190)
TotalVolume ==
    /\ pc = "total_volume"
    /\ IF ~gpio_initialized
       THEN /\ water_volume' = 0
            /\ pc' = Head(stack)
            /\ stack' = Tail(stack)
            /\ UNCHANGED <<vol_arr, i, win_stored, skew>>
       ELSE /\ vol_arr' = <<>>
            /\ i' = 0
            /\ win_stored' = 0
            /\ skew' = 0
            /\ pc' = "tv_for"
            /\ UNCHANGED <<water_volume, stack>>
    /\ UNCHANGED <<shared, fume, gpio, sampler, total_volume_val>>
    /\ UNCHANGED batch

\* for i in range(interval): if shutdown_flag.is_set(): break
\* (water-2taps.py 192-194)
TotalVolumeFor ==
    /\ pc = "tv_for"
    /\ IF i < MEASUREMENT_INTERVAL /\ ~shutdown_flag
       THEN pc' = "tv_sleep" /\ i' = i + 1
       ELSE pc' = "tv_sum" /\ UNCHANGED i
    /\ UNCHANGED <<stack, shared, fume, gpio, sampler, total_volume_val, vol_arr,
                   water_volume, win_stored, skew>>
    /\ UNCHANGED batch

\* time.sleep(1); vol_arr.append(temp_volume_val) (water-2taps.py 195-196)
TotalVolumeSample ==
    /\ pc = "tv_sleep"
    /\ skew < MaxSkew
    /\ skew' = skew + 1
    /\ vol_arr' = Append(vol_arr, temp_volume_val)
    /\ pc' = "tv_for"
    /\ UNCHANGED <<stack, shared, fume, gpio, sampler, total_volume_val, i,
                   water_volume, win_stored>>
    /\ UNCHANGED batch

\* total_volume_val = np.sum(vol_arr); return it (water-2taps.py 198-201, 259)
TotalVolumeReturn ==
    /\ pc = "tv_sum"
    /\ total_volume_val' = SeqSum(vol_arr)
    /\ water_volume' = total_volume_val'
    /\ pc' = Head(stack)
    /\ stack' = Tail(stack)
    /\ UNCHANGED <<shared, fume, gpio, sampler, vol_arr, i, win_stored, skew>>
    /\ UNCHANGED batch

\* if water_volume > 0.0: build the payload and call publish_mqtt
\* (water-2taps.py 260-275, 283-284)
WaterPublish ==
    /\ pc = "w_after_volume"
    /\ IF water_volume > 0
       THEN /\ msg_payload' = Some(WaterPayload(water_volume))
            /\ retry_count' = DEFAULT_RETRY_COUNT
            /\ pc' = "publish_mqtt"
            /\ stack' = <<"w_pub_ret">> \o stack
       ELSE /\ pc' = "w_check_errors"
            /\ UNCHANGED <<msg_payload, retry_count, stack>>
    /\ UNCHANGED <<ret, consecutive_errors, attempt, attempts, sleeps, deliveries,
                   signals, exit_code, fume, water>>
    /\ UNCHANGED batch

\* The publish-failure counter after publish_mqtt (water-2taps.py 275-282)
WaterAfterPublish ==
    /\ pc = "w_pub_ret"
    /\ consecutive_errors' = IF ret THEN 0 ELSE consecutive_errors + 1
    /\ pc' = "w_check_errors"
    /\ UNCHANGED <<stack, ret, msg_payload, pubvars, signals, exit_code, fume, water>>
    /\ UNCHANGED batch

\* Too many consecutive failures: log and reset (water-2taps.py 286-292)
WaterCheckErrors ==
    /\ pc = "w_check_errors"
    /\ consecutive_errors' = IF consecutive_errors >= max_consecutive_errors
                             THEN 0 ELSE consecutive_errors
    /\ pc' = "w_sleep"
    /\ UNCHANGED <<stack, ret, msg_payload, pubvars, signals, exit_code, fume, water>>
    /\ UNCHANGED batch

\* await asyncio.sleep(PUBLISH_DELAY) (water-2taps.py 294-295)
WaterSleep ==
    /\ pc = "w_sleep"
    /\ pc' = "w_loop"
    /\ UNCHANGED <<stack, shared, fume, water>>
    /\ UNCHANGED batch

\* run()'s finally: shutdown_flag.set() and the call of cleanup_gpio
\* (water-2taps.py 343-346)
WaterFinally ==
    /\ pc = "w_finally"
    /\ shutdown_flag' = TRUE
    /\ pc' = "cleanup_gpio"
    /\ stack' = <<"w_exit">>
    /\ UNCHANGED <<shared, fume, gpio_initialized, gpio_pins, events_on, sampler,
                   window>>
    /\ UNCHANGED batch

\* "Script terminated" and the end of the process (water-2taps.py 347)
WaterExit ==
    /\ pc = "w_exit"
    /\ pc' = "w_terminated"
    /\ exit_code' = IF exit_code = "running" THEN "0" ELSE exit_code
    /\ UNCHANGED <<stack, ret, consecutive_errors, msg_payload, pubvars, signals,
                   fume, water>>
    /\ UNCHANGED batch

WaterInFinally == pc = "w_exit" \/ (stack # <<>> /\ stack[Len(stack)] = "w_exit")

WaterLabels ==
    {"w_init_flag", "w_init_failed", "w_start_monitoring", "w_exit1",
     "cleanup_gpio", "cg_finally", "w_loop", "total_volume", "tv_for", "tv_sleep",
     "tv_sum", "w_after_volume", "publish_mqtt", "pub_for", "pub_try",
     "pub_backoff", "w_pub_ret", "w_check_errors", "w_sleep", "w_finally",
     "w_exit"}

\* A SIGINT or SIGTERM is delivered and signal_handler runs on the main thread
\* (water-2taps.py 111-116): the event is set, the handler's own cleanup_gpio
\* runs, and sys.exit(0) raises SystemExit at the interrupted step; it unwinds to
\* run()'s finally clause, or out of the process from inside that clause.
WaterSignalHandler ==
    /\ pc \in WaterLabels
    /\ signals < MaxSignals
    /\ signals' = signals + 1
    /\ shutdown_flag' = TRUE
    /\ IF gpio_initialized
       THEN gpio_pins' = 0 /\ events_on' = FALSE /\ gpio_initialized' = FALSE
       ELSE UNCHANGED <<gpio_pins, events_on, gpio_initialized>>
    /\ exit_code' = "0"
    /\ pc' = IF WaterInFinally THEN "w_terminated" ELSE "w_finally"
    /\ stack' = <<>>
    /\ UNCHANGED <<ret, consecutive_errors, msg_payload, pubvars, fume, sampler,
                   window>>
    /\ UNCHANGED batch

\* water-2taps.py: the process as run() starts.
InitWater == InitAt("w_run")

WaterNext ==
    \/ InitializeGpio \/ InitializeGpioFlag \/ InitializeGpioFailed
    \/ StartGpioMonitoring \/ StartFailedExit
    \/ CleanupGpio \/ CleanupGpioFinally
    \/ countPulse \/ MonitorRead \/ MonitorStore
    \/ WaterLoopTest \/ TotalVolume \/ TotalVolumeFor \/ TotalVolumeSample
    \/ TotalVolumeReturn \/ WaterPublish
    \/ PublishMqtt \/ PublishFor \/ PublishTry \/ PublishBackoff
    \/ WaterAfterPublish \/ WaterCheckErrors \/ WaterSleep
    \/ WaterFinally \/ WaterExit
    \/ WaterSignalHandler

SpecWater == InitWater /\ [][WaterNext]_vars

\* ------------------------------------ validate_distance, validate_light alone

\* Readings handed to the validators: below, on, inside and above the bounds.
DistanceInputs ==
    {None} \cup {Some(v) : v \in {-1, DISTANCE_MIN_MM, 1, 1200, DISTANCE_MAX_MM - 1,
                                  DISTANCE_MAX_MM, DISTANCE_MAX_MM + 1}}
LuxInputs ==
    {None} \cup {Some(v) : v \in {-1, LIGHT_MIN_LUX, 1, 300, LIGHT_MAX_LUX - 1,
                                  LIGHT_MAX_LUX, LIGHT_MAX_LUX + 1}}

\* A caller takes a reading to validate_distance or to validate_light.
ValidateCall ==
    /\ pc = "val_idle"
    /\ \/ /\ \E d \in DistanceInputs : distance' = d
          /\ pc' = "vd_call"
          /\ UNCHANGED lux
       \/ /\ \E l \in LuxInputs : lux' = l
          /\ pc' = "vl_call"
          /\ UNCHANGED distance
    /\ UNCHANGED <<stack, state, success, ret, counters, msg_payload, pubvars,
                   ghosts, tof_closes, exit_code>>
    /\ UNCHANGED water
    /\ UNCHANGED batch

\* validate_distance(distance) returns (fumehood.py 212-219); the caller calls
\* it once more on the same reading.
ValidateDistanceCall ==
    /\ pc \in {"vd_call", "vd_again"}
    /\ ret' = validate_distance(distance)
    /\ pc' = IF pc = "vd_call" THEN "vd_again" ELSE "vd_done"
    /\ UNCHANGED <<stack, state, success, readings, counters, msg_payload, pubvars,
                   ghosts, tof_closes, exit_code>>
    /\ UNCHANGED water
    /\ UNCHANGED batch

\* validate_light(lux) returns (fumehood.py 222-234); the caller calls it once
\* more on the same reading.
ValidateLightCall ==
    /\ pc \in {"vl_call", "vl_again"}
    /\ ret' = validate_light(lux)
    /\ pc' = IF pc = "vl_call" THEN "vl_again" ELSE "vl_done"
    /\ UNCHANGED <<stack, state, success, readings, counters, msg_payload, pubvars,
                   ghosts, tof_closes, exit_code>>
    /\ UNCHANGED water
    /\ UNCHANGED batch

\* The caller has both verdicts and is free to call again.
ValidateDone ==
    /\ pc \in {"vd_done", "vl_done"}
    /\ pc' = "val_idle"
    /\ UNCHANGED <<stack, state, success, ret, readings, counters, msg_payload,
                   pubvars, ghosts, tof_closes, exit_code>>
    /\ UNCHANGED water
    /\ UNCHANGED batch

InitValidate == InitAt("val_idle")

ValidateNext ==
    ValidateCall \/ ValidateDistanceCall \/ ValidateLightCall \/ ValidateDone

SpecValidate == InitValidate /\ [][ValidateNext]_vars

\* ------------------------------- ChemInventory_sqlserver.py, sizes_to_litres

\* A Python str is the sequence of its characters.
Whitespace == {" "}
DigitChars == {"0", "1", "2", "3", "4", "5", "6", "7", "8", "9"}
DigitValue(c) ==
    CASE c = "0" -> 0 [] c = "1" -> 1 [] c = "2" -> 2 [] c = "3" -> 3
      [] c = "4" -> 4 [] c = "5" -> 5 [] c = "6" -> 6 [] c = "7" -> 7
      [] c = "8" -> 8 [] c = "9" -> 9

\* str.strip()
RECURSIVE LStrip(_)
LStrip(q) == IF q # <<>> /\ Head(q) \in Whitespace THEN LStrip(Tail(q)) ELSE q
RECURSIVE RStrip(_)
RStrip(q) ==
    IF q # <<>> /\ q[Len(q)] \in Whitespace
    THEN RStrip(SubSeq(q, 1, Len(q) - 1)) ELSE q
Strip(q) == RStrip(LStrip(q))

\* str.lower(), on the letters the unit names and the toggle values use
LowerChar(c) ==
    CASE c = "M" -> "m" [] c = "L" -> "l" [] c = "U" -> "u" [] c = "T" -> "t"
      [] c = "F" -> "f" [] c = "Y" -> "y" [] c = "E" -> "e" [] c = "S" -> "s"
      [] OTHER -> c
Lower(q) == [j \in 1..Len(q) |-> LowerChar(q[j])]

\* The value of a string of decimal digits.
RECURSIVE DigitsValue(_)
DigitsValue(q) ==
    IF q = <<>> THEN 0
    ELSE 10 * DigitsValue(SubSeq(q, 1, Len(q) - 1)) + DigitValue(q[Len(q)])

\* The values a size or a unit cell holds: a number, a str, or None.
NumberCell(n) == [kind |-> "number", v |-> n, s |-> <<>>]
StrCell(q) == [kind |-> "str", v |-> 0, s |-> q]
NoneCell == [kind |-> "None", v |-> 0, s |-> <<>>]

\* float(s) (ChemInventory_sqlserver.py 90-95): the number, or None where float
\* raises TypeError (None) or ValueError (a str that is no number; surrounding
\* whitespace is accepted).
FloatOf(c) ==
    CASE c.kind = "number" -> Some(c.v)
      [] c.kind = "None" -> None
      [] c.kind = "str" ->
           LET t == Strip(c.s)
           IN  IF t # <<>> /\ \A j \in 1..Len(t) : t[j] \in DigitChars
               THEN Some(DigitsValue(t)) ELSE None

\* str(u) (ChemInventory_sqlserver.py 96)
PyStr(c) ==
    CASE c.kind = "str" -> c.s
      [] c.kind = "None" -> <<"N", "o", "n", "e">>
      [] c.kind = "number" -> <<"1">>

\* to_litre, the volume units of it, with the factors in microlitres so that
\* they are whole numbers (0.000001 L is 1, 0.001 L is 1000, 1.0 L is 1000000).
to_litre_keys ==
    {<<"u", "l">>, <<"u", "L">>, <<"m", "l">>, <<"m", "L">>, <<"l">>, <<"L">>}
to_litre(k) ==
    CASE Lower(k) = <<"u", "l">> -> 1
      [] Lower(k) = <<"m", "l">> -> 1000
      [] Lower(k) = <<"l">> -> 1000000
\* dict.get(key): the value, or None
to_litre_get(k) == IF k \in to_litre_keys THEN Some(to_litre(k)) ELSE None

\* The lists a caller passes hold at most this many cells each.
MaxPairs == 2
SizeCells ==
    {NumberCell(100), NumberCell(250), StrCell(<<" ", "5", "0", " ">>),
     StrCell(<<"N", "/", "A">>), NoneCell}
UnitCells ==
    {StrCell(<<"m", "l">>), StrCell(<<" ", "m", "l">>), StrCell(<<"m", "L">>),
     StrCell(<<"M", "L">>), StrCell(<<"L", " ">>),
     StrCell(<<"w", "e", "i", "r", "d">>), NoneCell}
ListsOf(S) == UNION {[1..n -> S] : n \in 0..MaxPairs}

\* A caller's call sizes_to_litres(size_list, unit_list), up to the loop
\* (ChemInventory_sqlserver.py 79, 87-88)
SizesToLitresCall ==
    /\ pc = "stl_idle"
    /\ \E sl \in ListsOf(SizeCells), ul \in ListsOf(UnitCells) :
         /\ size_list' = sl
         /\ unit_list' = ul
    /\ converted_volumes' = <<>>
    /\ skipped' = 0
    /\ zip_pos' = 0
    /\ pc' = "stl_for"
    /\ UNCHANGED <<result, but_chem>>

\* Variant: the unit is looked up as stripped only, with no second lookup of its
\* lower-case form.
SizesToLitresPair_ExactOnly ==
    /\ pc = "stl_for"
    /\ zip_pos < Min(Len(size_list), Len(unit_list))
    /\ zip_pos' = zip_pos + 1
    /\ LET s_f == FloatOf(size_list[zip_pos + 1])
           factor == to_litre_get(Strip(PyStr(unit_list[zip_pos + 1])))
       IN  IF s_f = None \/ factor = None
           THEN /\ skipped' = skipped + 1
                /\ UNCHANGED converted_volumes
           ELSE /\ converted_volumes' = Append(converted_volumes, s_f[1] * factor[1])
                /\ UNCHANGED skipped
    /\ UNCHANGED <<pc, size_list, unit_list, result, but_chem>>

\* One pair of zip(size_list, unit_list) (ChemInventory_sqlserver.py 89-105)
SizesToLitresPair ==
    /\ pc = "stl_for"
    /\ zip_pos < Min(Len(size_list), Len(unit_list))
    /\ zip_pos' = zip_pos + 1
    /\ LET s_f == FloatOf(size_list[zip_pos + 1])
           unit_normalized == Strip(PyStr(unit_list[zip_pos + 1]))
           exact == to_litre_get(unit_normalized)
           factor == IF exact = None THEN to_litre_get(Lower(unit_normalized))
                     ELSE exact
       IN  IF s_f = None \/ factor = None
           THEN /\ skipped' = skipped + 1
                /\ UNCHANGED converted_volumes
           ELSE /\ converted_volumes' = Append(converted_volumes, s_f[1] * factor[1])
                /\ UNCHANGED skipped
    /\ UNCHANGED <<pc, size_list, unit_list, result, but_chem>>

\* return sum(converted_volumes), skipped (ChemInventory_sqlserver.py 106)
SizesToLitresReturn ==
    /\ pc = "stl_for"
    /\ zip_pos >= Min(Len(size_list), Len(unit_list))
    /\ result' = <<SeqSum(converted_volumes), skipped>>
    /\ pc' = "stl_done"
    /\ UNCHANGED <<size_list, unit_list, converted_volumes, skipped, zip_pos, but_chem>>

InitSizes == InitAt("stl_idle")

SizesNext ==
    SizesToLitresCall \/ SizesToLitresPair \/ SizesToLitresReturn

SpecSizes == InitSizes /\ [][SizesNext]_vars

\* ------------------------------------------------ sql_helpers.py, maybe_insert

\* The values that switch the toggle on (sql_helpers.py 66-70)
TruthyValues == {<<"1">>, <<"t", "r", "u", "e">>, <<"y", "e", "s">>}

\* os.getenv(name, default): the variable's value, or the default when unset
getenv(name, default) == IF environ[name] = None THEN default ELSE environ[name][1]

\* What a variable of the environment may hold when maybe_insert is called.
EnvValues ==
    {None, Some(<<"T", "r", "u", "e">>), Some(<<"F", "a", "l", "s", "e">>),
     Some(<<" ", "Y", "E", "S", " ">>), Some(<<"0">>)}
ToggleValues == {None, Some(<<"T", "r", "u", "e">>), Some(<<"F", "a", "l", "s", "e">>)}
\* The arguments of a call.
Categories == {"chemComposite", "chemVOC"}
Rows == {<<0, 0, 0>>, <<1, 2, 3>>}
ConnectionStrings == {None, Some(<<>>), Some(<<"D", "S", "N">>)}
EnabledArgs == {None, Some(TRUE), Some(FALSE)}

\* A caller's call maybe_insert(category, new_row, connection_string, enabled)
\* in some environment (sql_helpers.py 53-58)
MaybeInsertCall ==
    /\ pc = "mi_idle"
    /\ \E e1 \in EnvValues, e2 \in ToggleValues :
         environ' = [INSERT_TO_SQL |-> e1, CHEMINVENTORY_INSERT_TO_SQL |-> e2]
    /\ \E c \in Categories : category' = c
    /\ \E r \in Rows : new_row' = r
    /\ \E cs \in ConnectionStrings : connection_string' = cs
    /\ \E en \in EnabledArgs : enabled' = en /\ enabled_arg' = en
    /\ insert_calls' = <<>>
    /\ pc' = "mi_toggle"
    /\ UNCHANGED but_sqlh

\* if enabled is None: read INSERT_TO_SQL; if not enabled: return
\* (sql_helpers.py 65-73)
MaybeInsertToggle ==
    /\ pc = "mi_toggle"
    /\ LET resolved ==
             IF enabled = None
             THEN Lower(Strip(getenv("INSERT_TO_SQL",
                                     <<"T", "r", "u", "e">>))) \in TruthyValues
             ELSE enabled[1]
       IN  /\ enabled' = Some(resolved)
           /\ pc' = IF resolved THEN "mi_connection" ELSE "mi_done"
    /\ UNCHANGED <<environ, category, new_row, connection_string, insert_calls,
                   enabled_arg>>
    /\ UNCHANGED but_sqlh

\* if not connection_string: return (sql_helpers.py 74-76)
MaybeInsertConnection ==
    /\ pc = "mi_connection"
    /\ pc' = IF connection_string = None \/ connection_string = Some(<<>>)
             THEN "mi_done" ELSE "insert_to_sql"
    /\ UNCHANGED sqlh
    /\ UNCHANGED but_sqlh

\* insert_to_sql(category, new_row, connection_string) (sql_helpers.py 77, 11-50)
InsertToSql ==
    /\ pc = "insert_to_sql"
    /\ insert_calls' = Append(insert_calls, <<category, new_row, connection_string[1]>>)
    /\ pc' = "mi_done"
    /\ UNCHANGED <<environ, category, new_row, connection_string, enabled,
                   enabled_arg>>
    /\ UNCHANGED but_sqlh

InitInsert == InitAt("mi_idle")

InsertNext ==
    MaybeInsertCall \/ MaybeInsertToggle \/ MaybeInsertConnection \/ InsertToSql

SpecInsert == InitInsert /\ [][InsertNext]_vars

\* ----------------------------------- processWasteMaster.py, compute_hp_volume

\* The HP columns of the frame (processWasteMaster.py 72).
hp_cols == <<"HP1", "HP2", "HP3">>
\* The frame has at most this many rows.
MaxRows == 2
\* Size and Unit of a row.  The numeric size is 6 so that the division by the
\* 1, 2 or 3 active flags of a row is exact, as it is in real arithmetic.
SizeUnits ==
    {<<NumberCell(6), StrCell(<<"L">>)>>,
     <<NumberCell(6), StrCell(<<"w", "e", "i", "r", "d">>)>>,
     <<StrCell(<<"N", "/", "A">>), StrCell(<<"m", "l">>)>>}
FlagValues == {-1, 0, 2}
WasteRows ==
    {[Size |-> su[1], Unit |-> su[2], HP |-> f] :
        su \in SizeUnits, f \in [1..Len(hp_cols) -> FlagValues]}

\* A caller's call compute_hp_volume(df) (processWasteMaster.py 62-78)
ComputeHpVolumeCall ==
    /\ pc = "hp_idle"
    /\ \E rows \in UNION {[1..n -> WasteRows] : n \in 0..MaxRows} : df' = rows
    /\ pc' = "hp_volume"
    /\ UNCHANGED <<volume_l, allocated, res_df, but_waste>>

\* unit_mult, with 1.0 (a litre) for a unit to_litre does not have
\* (processWasteMaster.py 81-90)
unit_mult(u) ==
    LET unit_key == Strip(PyStr(u))
    IN  IF to_litre_get(unit_key) = None THEN to_litre(<<"l">>)
        ELSE to_litre_get(unit_key)[1]
\* pd.to_numeric(errors="coerce").fillna(0.0) (processWasteMaster.py 93-94)
Size_numeric(c) == IF FloatOf(c) = None THEN 0 ELSE FloatOf(c)[1]

\* volume_l = Size_numeric * unit_mult, for every row (processWasteMaster.py 81-95)
ComputeVolume ==
    /\ pc = "hp_volume"
    /\ volume_l' = [r \in 1..Len(df) |-> Size_numeric(df[r].Size) * unit_mult(df[r].Unit)]
    /\ pc' = "hp_allocate"
    /\ UNCHANGED <<df, allocated, res_df, but_waste>>

\* hp_active and active_counts of row r (processWasteMaster.py 100-102)
hp_active(r) == [h \in 1..Len(hp_cols) |-> df[r].HP[h] > 0]
active_counts(r) == Cardinality({h \in 1..Len(hp_cols) : hp_active(r)[h]})

\* Variant: every active HP column is given the row's whole volume.
AllocateRows_WholeVolume ==
    /\ pc = "hp_allocate"
    /\ allocated' =
         [r \in 1..Len(df) |->
            [h \in 1..Len(hp_cols) |-> IF hp_active(r)[h] THEN volume_l[r] ELSE 0]]
    /\ pc' = "hp_groupby"
    /\ UNCHANGED <<df, volume_l, res_df, but_waste>>

\* allocation_base = volume_l / active_counts, NA where the count is 0;
\* allocated = hp_active * allocation_base, with 0.0 for NA
\* (processWasteMaster.py 105-106)
AllocateRows ==
    /\ pc = "hp_allocate"
    /\ allocated' =
         [r \in 1..Len(df) |->
            [h \in 1..Len(hp_cols) |->
               IF active_counts(r) = 0 THEN 0
               ELSE IF hp_active(r)[h] THEN volume_l[r] \div active_counts(r)
               ELSE 0]]
    /\ pc' = "hp_groupby"
    /\ UNCHANGED <<df, volume_l, res_df, but_waste>>

\* The sum of column h of allocated over the first n rows.
RECURSIVE ColumnSum(_, _)
ColumnSum(h, n) == IF n = 0 THEN 0 ELSE ColumnSum(h, n - 1) + allocated[n][h]

\* melt, groupby(["Date", "HP Number"]).sum() for rows of one date, and the
\* return (processWasteMaster.py 108-116)
GroupByHp ==
    /\ pc = "hp_groupby"
    /\ res_df' = [h \in 1..Len(hp_cols) |-> ColumnSum(h, Len(df))]
    /\ pc' = "hp_done"
    /\ UNCHANGED <<df, volume_l, allocated, but_waste>>

InitWaste == InitAt("hp_idle")

WasteNext == ComputeHpVolumeCall \/ ComputeVolume \/ AllocateRows \/ GroupByHp

SpecWaste == InitWaste /\ [][WasteNext]_vars

\* ------------------- water-2taps.py, the pulse counter and its lock, by step

\* Falling edges that arrive in one run.
MaxPulses == 4

\* What these steps leave alone: the main thread and the other scripts.
but_pulse ==
    <<pc, stack, shared, fume, gpio, window, temp_volume_val, chem, sqlh, waste, tap,
      subs, startup>>

\* A falling edge: RPi.GPIO's callback thread calls countPulse, one call at a
\* time (water-2taps.py 119-122, 162-167).
PulseEdge ==
    /\ events_on
    /\ cb_pc = "cb_idle"
    /\ detected < MaxPulses
    /\ detected' = detected + 1
    /\ cb_pc' = "cb_lock"
    /\ UNCHANGED <<count, current_count, mon_pc, count_lock, cb_count, taken, but_pulse>>

\* Variant: countPulse goes on without taking count_lock.
CallbackAcquire_NoLock ==
    /\ cb_pc = "cb_lock"
    /\ cb_pc' = "cb_load"
    /\ UNCHANGED <<count, current_count, mon_pc, count_lock, cb_count, detected, taken,
                   but_pulse>>

\* with count_lock: (water-2taps.py 123)
CallbackAcquire ==
    /\ cb_pc = "cb_lock"
    /\ count_lock = "free"
    /\ count_lock' = "callback"
    /\ cb_pc' = "cb_load"
    /\ UNCHANGED <<count, current_count, mon_pc, cb_count, detected, taken, but_pulse>>

\* count = count + 1: the load of count (water-2taps.py 124)
CallbackLoad ==
    /\ cb_pc = "cb_load"
    /\ cb_count' = count
    /\ cb_pc' = "cb_store"
    /\ UNCHANGED <<count, current_count, mon_pc, count_lock, detected, taken, but_pulse>>

\* count = count + 1: the store (water-2taps.py 124)
CallbackStore ==
    /\ cb_pc = "cb_store"
    /\ count' = cb_count + 1
    /\ cb_pc' = "cb_unlock"
    /\ UNCHANGED <<current_count, mon_pc, count_lock, cb_count, detected, taken,
                   but_pulse>>

\* The end of the with block (water-2taps.py 123-124)
CallbackRelease ==
    /\ cb_pc = "cb_unlock"
    /\ count_lock' = IF count_lock = "callback" THEN "free" ELSE count_lock
    /\ cb_pc' = "cb_idle"
    /\ UNCHANGED <<count, current_count, mon_pc, cb_count, detected, taken, but_pulse>>

\* gpio_monitoring: with count_lock: (water-2taps.py 135-137)
SamplerAcquire ==
    /\ mon_pc = "m_loop"
    /\ ~shutdown_flag
    /\ count_lock = "free"
    /\ count_lock' = "sampler"
    /\ mon_pc' = "m_load"
    /\ UNCHANGED <<count, current_count, cb_pc, cb_count, detected, taken, but_pulse>>

\* current_count = count (water-2taps.py 138)
SamplerLoad ==
    /\ mon_pc = "m_load"
    /\ current_count' = count
    /\ mon_pc' = "m_reset"
    /\ UNCHANGED <<count, count_lock, cb_pc, cb_count, detected, taken, but_pulse>>

\* count = 0, and the end of the with block (water-2taps.py 139)
SamplerReset ==
    /\ mon_pc = "m_reset"
    /\ count' = 0
    /\ taken' = taken + current_count
    /\ count_lock' = "free"
    /\ mon_pc' = "m_sleep"
    /\ UNCHANGED <<current_count, cb_pc, cb_count, detected, but_pulse>>

\* water-2taps.py up to the start of the sampler thread, then the callback and
\* the sampler step by step; the main thread stays in its loop, which does not
\* touch count.
InitPulse == InitAt("w_run")

PulseNext ==
    \/ InitializeGpio \/ InitializeGpioFlag \/ StartGpioMonitoring
    \/ PulseEdge \/ CallbackAcquire \/ CallbackLoad \/ CallbackStore \/ CallbackRelease
    \/ SamplerAcquire \/ SamplerLoad \/ SamplerReset \/ MonitorStore

SpecPulse == InitPulse /\ [][PulseNext]_vars

\* --------------------------------------- Azure-Stream-Water-Schedule.py

\* Falling edges countPulse handles back to back: the pulses of half a second
\* and of one second at 2000 mL/min.
TapBursts == {300, 600}
\* No burst is drawn that takes the module's count above this.
MaxTapCount == 3000

\* What the single-tap steps leave alone.
but_tap ==
    <<stack, shared, fume, gpio_initialized, shutdown_flag, current_count, window,
      chem, sqlh, waste, pulse, subs, startup>>

\* The module's top level: GPIO set up, countPulse registered and the
\* gpio_monitoring thread started (Azure-Stream-Water-Schedule.py 24-56).
TapStart ==
    /\ pc = "tap_run"
    /\ gpio_pins' = 2
    /\ events_on' = TRUE
    /\ mon_pc' = "t_loop"
    /\ pc' = "tap_main"
    /\ UNCHANGED <<count, temp_volume_val, local_count, tick_pulses, but_tap>>

\* countPulse: global count; count = count + 1, once per edge of a burst
\* (Azure-Stream-Water-Schedule.py 38-40)
TapCountPulse ==
    /\ events_on
    /\ \E b \in TapBursts :
         /\ count + b <= MaxTapCount
         /\ count' = count + b
         /\ tick_pulses' = IF mon_pc = "t_sleep" THEN tick_pulses + b ELSE tick_pulses
    /\ UNCHANGED <<pc, gpio_pins, events_on, mon_pc, temp_volume_val, local_count,
                   but_tap>>

\* gpio_monitoring: count = 0 and the start of time.sleep(1).  The function has
\* no global statement for count, so the name it assigns is its own local
\* (Azure-Stream-Water-Schedule.py 44-47).
TapTickBegin ==
    /\ mon_pc = "t_loop"
    /\ local_count' = 0
    /\ tick_pulses' = 0
    /\ mon_pc' = "t_sleep"
    /\ UNCHANGED <<pc, gpio_pins, events_on, count, temp_volume_val, but_tap>>

\* gpio_monitoring after the sleep: vol from count, count = 0, temp_volume_val
\* = vol (Azure-Stream-Water-Schedule.py 48-52)
TapTickEnd ==
    /\ mon_pc = "t_sleep"
    /\ temp_volume_val' = Rate(local_count)
    /\ local_count' = 0
    /\ mon_pc' = "t_loop"
    /\ UNCHANGED <<pc, gpio_pins, events_on, count, tick_pulses, but_tap>>

InitTap == InitAt("tap_run")

TapNext == TapStart \/ TapCountPulse \/ TapTickBegin \/ TapTickEnd

SpecTap == InitTap /\ [][TapNext]_vars

\* ------------------------- subscriber_sqlserver.py and subscriber.py, on_message

\* Messages fumehood.py publishes in one run of this part.
MaxMessages == 2

\* What time_send.strftime("%Y-%m-%d %H:%M:%S") gives.
Timestamps == {"2024-05-01 10:00:00", "2024-05-01 10:00:30"}

\* A text is a sequence of tokens: punctuation, a quoted string with its quote
\* character, or a number.
Punct(c) == [k |-> "punct", q |-> "", s |-> c, v |-> 0]
Quoted(q, str) == [k |-> "str", q |-> q, s |-> str, v |-> 0]
Number(n) == [k |-> "num", q |-> "", s |-> "", v |-> n]

\* str() of the dict main builds (fumehood.py 377-390): Python's repr, with its
\* strings in single quotes.
StrOfPayload(p, ts) ==
    <<Punct("{"),
      Quoted("'", "labId"), Punct(":"), Number(p.labId), Punct(","),
      Quoted("'", "sublabId"), Punct(":"), Number(p.sublabId), Punct(","),
      Quoted("'", "sensorReadings"), Punct(":"), Punct("{"),
      Quoted("'", "fumehood"), Punct(":"), Punct("{"),
      Quoted("'", "distance"), Punct(":"), Number(p.distance), Punct(","),
      Quoted("'", "light"), Punct(":"), Number(p.light), Punct(","),
      Quoted("'", "airflow"), Punct(":"), Number(p.airflow),
      Punct("}"), Punct("}"), Punct(","),
      Quoted("'", "measureTimestamp"), Punct(":"), Quoted("'", ts),
      Punct("}")>>

\* message_str.replace("'", '"') (subscriber_sqlserver.py 266, subscriber.py 232)
ReplaceQuotes(text) ==
    [j \in 1..Len(text) |->
        IF text[j].k = "str" /\ text[j].q = "'"
        THEN [text[j] EXCEPT !.q = "\""] ELSE text[j]]

\* json.loads (subscriber_sqlserver.py 270, subscriber.py 236) of a text of
\* nested objects: the scalar at each path of keys, and ok = FALSE where it
\* raises JSONDecodeError (a string not in double quotes).
RECURSIVE json_parse(_, _, _, _, _)
json_parse(text, j, path, pending, out) ==
    IF j > Len(text) THEN [ok |-> TRUE, at |-> out]
    ELSE LET t == text[j]
         IN  CASE t.k = "punct" /\ t.s = "{" ->
                    IF pending = None
                    THEN json_parse(text, j + 1, path, None, out)
                    ELSE json_parse(text, j + 1, path \o pending, None, out)
               [] t.k = "punct" /\ t.s = "}" ->
                    json_parse(text, j + 1,
                               IF path = <<>> THEN path
                               ELSE SubSeq(path, 1, Len(path) - 1),
                               None, out)
               [] t.k = "punct" /\ t.s \notin {"{", "}"} ->
                    json_parse(text, j + 1, path, pending, out)
               [] t.k = "str" /\ t.q # "\"" -> [ok |-> FALSE, at |-> {}]
               [] t.k = "str" /\ t.q = "\"" /\ pending = None ->
                    json_parse(text, j + 1, path, Some(t.s), out)
               [] OTHER ->
                    json_parse(text, j + 1, path, None,
                               out \cup {<<path \o pending, t>>})
json_loads(text) == json_parse(text, 1, <<>>, None, {})

\* A nested dict, as a value.
DictValue == [k |-> "dict", q |-> "", s |-> "", v |-> 0]

\* d.get(key) for the dict at a path of the parsed data: None, a scalar, or a
\* nested dict.
DictKeys(data, path) ==
    {e[1][Len(path) + 1] : e \in {x \in data.at :
        Len(x[1]) > Len(path) /\ SubSeq(x[1], 1, Len(path)) = path}}
Get(data, path, key) ==
    IF \E e \in data.at : e[1] = path \o <<key>>
    THEN Some((CHOOSE e \in data.at : e[1] = path \o <<key>>)[2])
    ELSE IF key \in DictKeys(data, path) THEN Some(DictValue)
    ELSE None

\* Truth of a value get returned, as all([...]) tests it
\* (subscriber_sqlserver.py 283-285, subscriber.py 249-251).
Truthy(x) ==
    /\ x # None
    /\ x[1].k = "num" => x[1].v # 0
    /\ x[1].k = "str" => x[1].s # ""

\* normalize_value (subscriber_sqlserver.py 89-99, subscriber.py 58-68): None
\* gives the default, a number is itself as a float, and a str falls back to
\* the default unless float() reads it (no timestamp or key here does).
normalize_value(x, default) ==
    IF x = None THEN default
    ELSE IF x[1].k = "num" THEN x[1].v
    ELSE default

\* The argument of a SQL parameter: None is NULL.
SqlValue(x) == IF x = None THEN "NULL" ELSE IF x[1].k = "num" THEN x[1].v ELSE x[1].s

\* insert_sql_fumehood (subscriber_sqlserver.py 184-221, subscriber.py 149-187):
\* the row the INSERT adds.
FumehoodRow(lab_id, sublab_id, d, l, a, ts) ==
    [LabId |-> SqlValue(lab_id), SublabId |-> SqlValue(sublab_id),
     Distance |-> normalize_value(d, 0), Light |-> normalize_value(l, 0),
     Airflow |-> normalize_value(a, 0), Timestamp |-> SqlValue(ts)]

\* Whether on_message gets as far as the sensor readings
\* (subscriber_sqlserver.py 260-290, subscriber.py 226-256).
Accepted(data) ==
    /\ data.ok
    /\ Get(data, <<>>, "labId") # None
    /\ Get(data, <<>>, "sublabId") # None
    /\ Truthy(Get(data, <<>>, "measureTimestamp"))
    /\ Truthy(Get(data, <<>>, "sensorReadings"))

\* The rows on_message of subscriber_sqlserver.py inserts for a text: the
\* readings are those of the dict under "fumehood"
\* (subscriber_sqlserver.py 302-321).
SqlServerRows(text) ==
    LET data == json_loads(ReplaceQuotes(text))
        sr == <<"sensorReadings">>
    IN  IF Accepted(data) /\ "fumehood" \in DictKeys(data, sr)
             /\ Get(data, sr, "fumehood") = Some(DictValue)
        THEN <<FumehoodRow(Get(data, <<>>, "labId"), Get(data, <<>>, "sublabId"),
                           Get(data, sr \o <<"fumehood">>, "distance"),
                           Get(data, sr \o <<"fumehood">>, "light"),
                           Get(data, sr \o <<"fumehood">>, "airflow"),
                           Get(data, <<>>, "measureTimestamp"))>>
        ELSE <<>>

\* The rows on_message of subscriber.py inserts for a text: the readings are
\* the keys "distance", "light" and "airflow" of sensorReadings itself
\* (subscriber.py 268-281).
SqliteRows(text) ==
    LET data == json_loads(ReplaceQuotes(text))
        sr == <<"sensorReadings">>
    IN  IF Accepted(data)
             /\ ("distance" \in DictKeys(data, sr) \/ "light" \in DictKeys(data, sr))
        THEN <<FumehoodRow(Get(data, <<>>, "labId"), Get(data, <<>>, "sublabId"),
                           Get(data, sr, "distance"), Get(data, sr, "light"),
                           Get(data, sr, "airflow"),
                           Get(data, <<>>, "measureTimestamp"))>>
        ELSE <<>>

\* fumehood.py publishes the payload of a tick with at least one valid reading
\* (fumehood.py 376-392) and the broker hands it to both subscribers.
PublishFumehood ==
    /\ pc = "mq_idle"
    /\ Len(published) < MaxMessages
    /\ \E d \in {None} \cup {Some(v) : v \in DistanceValues},
          l \in {None} \cup {Some(v) : v \in LuxValues},
          ts \in Timestamps :
         /\ validate_distance(d) \/ validate_light(l)
         /\ published' = Append(published, [payload |-> Payload(d, l), ts |-> ts])
         /\ message' = StrOfPayload(Payload(d, l), ts)
    /\ handled' = [sqlserver |-> FALSE, sqlite |-> FALSE]
    /\ pc' = "mq_delivering"
    /\ UNCHANGED <<fumehood_rows, insert_errors, but_subs>>

\* on_message of subscriber_sqlserver.py (258-324) for the message in delivery,
\* with the INSERT it runs: the row is added, or the database raises and the
\* error is logged (184-221).
OnMessageSqlServer ==
    /\ pc = "mq_delivering"
    /\ ~handled.sqlserver
    /\ handled' = [handled EXCEPT !.sqlserver = TRUE]
    /\ LET rows == SqlServerRows(message)
       IN  \E db_ok \in BOOLEAN :
             IF db_ok \/ rows = <<>>
             THEN /\ fumehood_rows' = [fumehood_rows EXCEPT !.sqlserver = @ \o rows]
                  /\ UNCHANGED insert_errors
             ELSE /\ insert_errors' = [insert_errors EXCEPT !.sqlserver = @ + Len(rows)]
                  /\ UNCHANGED fumehood_rows
    /\ UNCHANGED <<pc, message, published, but_subs>>

\* on_message of subscriber.py (224-284), with the INSERT it runs (149-187)
OnMessageSqlite ==
    /\ pc = "mq_delivering"
    /\ ~handled.sqlite
    /\ handled' = [handled EXCEPT !.sqlite = TRUE]
    /\ LET rows == SqliteRows(message)
       IN  \E db_ok \in BOOLEAN :
             IF db_ok \/ rows = <<>>
             THEN /\ fumehood_rows' = [fumehood_rows EXCEPT !.sqlite = @ \o rows]
                  /\ UNCHANGED insert_errors
             ELSE /\ insert_errors' = [insert_errors EXCEPT !.sqlite = @ + Len(rows)]
                  /\ UNCHANGED fumehood_rows
    /\ UNCHANGED <<pc, message, published, but_subs>>

\* Both subscribers have handled the message.
DeliveryDone ==
    /\ pc = "mq_delivering"
    /\ handled.sqlserver /\ handled.sqlite
    /\ message' = <<>>
    /\ pc' = "mq_idle"
    /\ UNCHANGED <<published, handled, fumehood_rows, insert_errors, but_subs>>

InitSubscribe == InitAt("mq_idle")

SubscribeNext ==
    PublishFumehood \/ OnMessageSqlServer \/ OnMessageSqlite \/ DeliveryDone

SpecSubscribe == InitSubscribe /\ [][SubscribeNext]_vars

\* ---------------------------------------- fumehood.py from the module's top

\* What the environment holds for MQTT_SERVER: unset (the default ""), blank,
\* or a host name.
ServerValues == {None, Some(<<" ">>), Some(<<"h", "o", "s", "t">>)}

\* The module's configuration (fumehood.py 47-92): sys.exit(1) when .env does
\* not exist, and when MQTT_SERVER is empty once stripped; run() otherwise
\* (fumehood.py 471-472).
LoadConfiguration ==
    /\ pc = "module"
    /\ \E env_exists \in BOOLEAN, server \in ServerValues :
         LET MQTT_SERVER == Strip(IF server = None THEN <<>> ELSE server[1])
         IN  /\ config' = [env_exists |-> env_exists, MQTT_SERVER |-> MQTT_SERVER]
             /\ IF ~env_exists \/ MQTT_SERVER = <<>>
                THEN pc' = "terminated" /\ exit_code' = "1"
                ELSE pc' = "run" /\ UNCHANGED exit_code
    /\ UNCHANGED <<stack, state, success, ret, readings, counters, msg_payload,
                   pubvars, ghosts, tof_closes>>
    /\ UNCHANGED <<water, chem, sqlh, waste, pulse, tap, subs>>

InitStartup == InitAt("module")

StartupNext == LoadConfiguration \/ Next

SpecStartup == InitStartup /\ [][StartupNext]_vars

\* ------------------------------------------------------------------ claims

\* The main thread is inside recover_sensors on behalf of one fault class.
RecoveryLabels ==
    {"recover_sensors", "rec_sleep", "rec_after_init", "cleanup_sensors",
     "cl_stop", "cl_close", "cl_finally", "cl_ltr", "initialize_sensors",
     "init_tof", "init_ltr"}
RecoveringFor(label) ==
    /\ pc \in RecoveryLabels
    /\ stack # <<>>
    /\ \E j \in 1..Len(stack) : stack[j] = label
\* recover_sensors has just been called on behalf of one fault class.
InvokedFor(label) ==
    pc = "recover_sensors" /\ stack # <<>> /\ Head(stack) = label

\* C1: for each fault class recover_sensors is invoked once per streak of 0.0
\* readings, on the tick where the consecutive count first reaches the class's
\* threshold (so with the count equal to the threshold), and not again before a
\* new full streak, whatever the recovery's outcome.
C1_RecoveryOncePerStreak ==
    /\ InvokedFor("rec_ret_d")
         => consecutive_zero_distance = ZERO_DISTANCE_REBOOT_THRESHOLD
    /\ InvokedFor("rec_ret_l")
         => consecutive_zero_light = ZERO_LIGHT_REINIT_THRESHOLD

\* C2: when a tick is over whose reading of a class is a valid non-zero value
\* that ends a run of exactly threshold-1 readings of 0.0, that class's
\* consecutive counter is 0, and neither recover_sensors nor reboot_pi was
\* invoked for the class in that tick.
EndsShortStreakD ==
    /\ zrun.d = ZERO_DISTANCE_REBOOT_THRESHOLD - 1
    /\ distance # Some(0) /\ validate_distance(distance)
EndsShortStreakL ==
    /\ zrun.l = ZERO_LIGHT_REINIT_THRESHOLD - 1
    /\ lux # Some(0) /\ validate_light(lux)
C2_ShortStreakResets ==
    /\ (pc = "loop" /\ EndsShortStreakD) => consecutive_zero_distance = 0
    /\ (pc = "loop" /\ EndsShortStreakL) => consecutive_zero_light = 0
    /\ EndsShortStreakD
         => ~RecoveringFor("rec_ret_d") /\ pc \notin {"reboot_pi", "reboot_cmd"}
    /\ EndsShortStreakL => ~RecoveringFor("rec_ret_l")

\* C3 as stated: no sensor read starts while a False return of recover_sensors,
\* for either fault class, has not been followed by reboot_pi.
C3_FailureAlwaysReboots ==
    pc = "read_distance" => last_recovery \notin {"d_fail", "l_fail"}

\* C3 amended: a False return of the zero-distance recovery is followed by
\* reboot_pi before any sensor read (the main thread is calling it, or a
\* signal has ended the process); a False return of the zero-light recovery is
\* followed by no reboot.
C3_DistanceFailureReboots ==
    /\ pc = "read_distance" => last_recovery # "d_fail"
    /\ last_recovery = "d_fail" => (pc \in {"rec_ret_d", "reboot_pi"} \/ signals > 0)
    /\ last_recovery = "l_fail" => (reboots = 0 /\ pc \notin {"reboot_pi", "reboot_cmd"})
    /\ (pc = "main_done" /\ ~state.shutdown_flag) => reboots = 1
C3_Witness ==
    pc = "main_done" /\ reboots = 1 /\ consecutive_zero_distance = ZERO_DISTANCE_REBOOT_THRESHOLD

\* C4: when the next sensor read starts after recover_sensors returned True,
\* the consecutive counter of the class that triggered the recovery is 0.
C4_SuccessResetsCounter ==
    pc \in {"loop", "read_distance"} =>
        /\ last_recovery = "d_ok" => consecutive_zero_distance = 0
        /\ last_recovery = "l_ok" => consecutive_zero_light = 0
C4_Witness ==
    pc = "read_distance" /\ last_recovery = "l_ok" /\ zrun.l >= ZERO_LIGHT_REINIT_THRESHOLD - 1

\* C5: with bounds [0, 4000] and threshold 10, recover_sensors is invoked for
\* the zero-distance class exactly at the tenth consecutive 0.0 reading (a valid
\* reading by the bounds), the tenth never passes without it, and after a failed
\* re-initialization the reboot command runs once, with state tof and ltr559
\* both None when it runs, and no sensor read or publish after it.
ExitLabels ==
    {"main_done", "run_finally", "cleanup_sensors", "cl_stop", "cl_close",
     "cl_finally", "cl_ltr", "run_exit", "terminated"}
C5_TenZerosRecoverThenReboot ==
    /\ DISTANCE_MIN_MM = 0 /\ DISTANCE_MAX_MM = 4000
    /\ ZERO_DISTANCE_REBOOT_THRESHOLD = 10
    /\ validate_distance(Some(0))
    /\ InvokedFor("rec_ret_d")
         => /\ consecutive_zero_distance = 10
            /\ zrun.d >= 9
            /\ distance = Some(0)
    /\ consecutive_zero_distance >= 10
         => \/ RecoveringFor("rec_ret_d")
            \/ pc \in {"rec_ret_d", "reboot_pi", "reboot_cmd"}
            \/ pc \in ExitLabels
    /\ reboots <= 1
    /\ pc = "reboot_cmd" => (state.tof = "None" /\ state.ltr559 = "None")
    /\ pc = "reboot_cmd" => (stack = <<"main_done">> /\ ~ret)
    /\ reboots >= 1 => (pc \in ExitLabels /\ ~RecoveringFor("rec_ret_d")
                          /\ ~RecoveringFor("rec_ret_l"))
C5_Witness ==
    /\ pc = "main_done"
    /\ reboots = 1
    /\ zrun.d >= 9
    /\ state.tof = "None" /\ state.ltr559 = "None"

PublishLabels == {"publish_mqtt", "pub_for", "pub_try", "pub_backoff"}

InPublish == pc \in {"pub_for", "pub_try", "pub_backoff", "pub_done"}

\* C6: one call publish_mqtt(payload, retry_count) makes at most retry_count
\* attempts and delivers at most once; an attempt is made only while nothing
\* has been delivered, and one 2 s sleep lies between every two attempts; the
\* call returns True exactly when an attempt delivered, with no sleep after that
\* attempt, and False only after retry_count failed attempts, with no sleep
\* after the last of them.
C6_BoundedRetry ==
    InPublish =>
      /\ attempts <= retry_count
      /\ deliveries <= 1
      /\ pc = "pub_try" => /\ deliveries = 0
                           /\ attempt = attempts + 1
                           /\ sleeps = attempts
      /\ pc = "pub_done" =>
           /\ ret = (deliveries = 1)
           /\ ret => (attempts >= 1 /\ sleeps = attempts - 1)
           /\ ~ret => /\ attempts = retry_count
                      /\ sleeps = IF retry_count = 0 THEN 0 ELSE retry_count - 1
C6_Witness ==
    /\ pc = "pub_done"
    /\ retry_count = MaxRetryCount
    /\ ret /\ attempts = 3 /\ sleeps = 2 /\ deliveries = 1

\* C7: the step after publish_mqtt sets consecutive_errors to 0 when an attempt
\* delivered and to one more than before when all retry_count attempts failed;
\* no step inside publish_mqtt changes it; every attempt carries the payload
\* built in the tick in progress, so a message whose publish failed is not sent
\* again by a later tick.
C7_PublishFailureCounter ==
    [][/\ (pc = "pub_ret" /\ pc' = "check_errors")
            => /\ (deliveries >= 1) = ret
               /\ ret => consecutive_errors' = 0
               /\ ~ret => (/\ consecutive_errors' = consecutive_errors + 1
                           /\ attempts = retry_count
                           /\ deliveries = 0)
       /\ (pc \in PublishLabels /\ pc' \in PublishLabels \cup {"pub_ret"})
            => consecutive_errors' = consecutive_errors
       /\ attempts' = attempts + 1
            => (msg_payload # None /\ msg_payload[1].measureTimestamp = 0)
      ]_vars
C7_Witness ==
    /\ pc = "check_errors"
    /\ msg_payload # None /\ msg_payload[1].measureTimestamp = 0
    /\ ~ret /\ attempts = DEFAULT_RETRY_COUNT /\ deliveries = 0
    /\ consecutive_errors = 2

\* The steps of one tick of main's loop, from the distance read to the check of
\* the publish-failure counter.
TickLabels ==
    {"read_distance", "read_light", "eval_distance", "eval_light", "validate",
     "publish_mqtt", "pub_for", "pub_try", "pub_backoff", "pub_ret",
     "check_errors"}

\* C9: a signal delivered in the middle of a tick only sets the shutdown flag:
\* the main thread stays where it is, with its calls in progress and its sensor
\* handles, and goes on with the tick.
C9_SignalOnlySetsFlag ==
    [][(signals' # signals /\ pc \in TickLabels)
         => /\ pc' = pc
            /\ stack' = stack
            /\ state' = [state EXCEPT !.shutdown_flag = TRUE]
      ]_vars

\* C8: when total_volume has run its whole window without a shutdown, the sum
\* it returns is the sum of the rates gpio_monitoring stored during that window,
\* each added once.
C8_WindowSumExact ==
    (pc = "tv_sum" /\ ~shutdown_flag /\ Len(vol_arr) = MEASUREMENT_INTERVAL)
        => SeqSum(vol_arr) = win_stored

\* C10: when the process has ended, the fumehood's sensor handles are None, and
\* the water node's GPIO channels are cleaned up with gpio_initialized False.
C10_ReleasedOnEveryExit ==
    /\ pc = "terminated" => (state.tof = "None" /\ state.ltr559 = "None")
    /\ pc = "w_terminated" => (gpio_pins = 0 /\ ~gpio_initialized)

\* The message in msg_payload was built in the tick in progress.
Fresh == msg_payload # None /\ msg_payload[1].measureTimestamp = 0
\* At least one of this tick's readings passes its validation.
AnyValid == validate_distance(distance) \/ validate_light(lux)
\* What the claimed rule puts in a metric's field: the measured value for a
\* valid reading other than 0.0, the sentinel for every other reading.
SentinelUnlessGood(r, valid) == IF valid /\ r # Some(0) THEN r[1] ELSE -1

\* C11: every message handed to publish_mqtt by the fumehood loop has the keys
\* distance, light and airflow; a metric whose reading is None, out of bounds or
\* 0.0 carries the sentinel -1, any other reading carries the measured value.
C11_SentinelForInvalidOrZero ==
    (pc \in PublishLabels /\ Fresh) =>
        /\ {"distance", "light", "airflow"} \subseteq DOMAIN msg_payload[1]
        /\ msg_payload[1].distance
             = SentinelUnlessGood(distance, validate_distance(distance))
        /\ msg_payload[1].light
             = SentinelUnlessGood(lux, validate_light(lux))

\* C12 as stated: when a tick is over and the loop is at its top again, a
\* message was built in that tick exactly when one of its readings was valid.
C12_EveryValidTickPublishes ==
    pc = "loop" => (Fresh <=> AnyValid)
\* C12: a tick that reaches validation (no recovery succeeded and no reboot was
\* started in it) builds one message and hands it to publish_mqtt exactly when
\* one of its readings is valid; a tick that ends with the continue after a
\* successful recovery builds none, whatever its readings.
C12_ValidatedTickPublishes ==
    /\ pc \in {"check_errors", "sleep"} => (Fresh <=> AnyValid)
    /\ pc = "loop" => (Fresh <=> (AnyValid /\ last_recovery \notin {"d_ok", "l_ok"}))
    /\ pc \in PublishLabels => (Fresh /\ AnyValid /\ Head(stack) = "pub_ret")
    /\ (pc = "check_errors" /\ Fresh) => (deliveries = 1 \/ attempts = retry_count)
C12_Witness ==
    /\ pc = "check_errors"
    /\ Fresh /\ deliveries = 1
    /\ validate_distance(distance) /\ ~validate_light(lux)
C12_WitnessSkipped ==
    /\ pc = "loop"
    /\ last_recovery = "d_ok"
    /\ validate_light(lux) /\ ~Fresh

\* A recovery, or the reboot that follows its failure, is in progress.
InRecovery ==
    \/ RecoveringFor("rec_ret_d") \/ RecoveringFor("rec_ret_l")
    \/ pc \in {"rec_ret_d", "rec_ret_l", "reboot_pi", "reboot_cmd"}
    \/ (stack # <<>> /\ \E j \in 1..Len(stack) : stack[j] = "reboot_cmd")

\* C13: recover_sensors is invoked only when no recovery has run earlier in the
\* tick, never inside another recovery, and no step from its start to its
\* return, or to the reboot after its failure, reads a sensor or publishes.
C13_OneRecoveryNoReadNoPublish ==
    [][/\ (pc' = "recover_sensors" /\ pc # "recover_sensors")
            => (last_recovery = "none" /\ ~InRecovery)
       /\ Cardinality({j \in 1..Len(stack) : stack[j] \in {"rec_ret_d", "rec_ret_l"}})
            <= 1
       /\ InRecovery => /\ distance' = distance
                        /\ lux' = lux
                        /\ attempts' = attempts
                        /\ deliveries' = deliveries
                        /\ msg_payload' = msg_payload
                        /\ pc' \notin PublishLabels \cup {"read_distance", "read_light"}
      ]_vars
C13_Witness ==
    /\ RecoveringFor("rec_ret_l")
    /\ pc = "init_ltr"
    /\ msg_payload # None
    /\ zrun.l = ZERO_LIGHT_REINIT_THRESHOLD

\* The verdict the bounds alone give for a reading.
InBounds(r, lo, hi) == r # None /\ lo <= r[1] /\ r[1] <= hi

\* C14: each validator returns True exactly when the reading is not None and
\* lies within the configured bounds; the call changes nothing but its return
\* value, and a second call on the same reading returns the same verdict; with
\* the default bounds 0.0 is valid.
C14_ValidatePure ==
    [][/\ pc \in {"vd_call", "vd_again"}
            => ret' = InBounds(distance, DISTANCE_MIN_MM, DISTANCE_MAX_MM)
       /\ pc \in {"vl_call", "vl_again"}
            => ret' = InBounds(lux, LIGHT_MIN_LUX, LIGHT_MAX_LUX)
       /\ pc \in {"vd_again", "vl_again"} => ret' = ret
       /\ pc \in {"vd_call", "vd_again", "vl_call", "vl_again"}
            => UNCHANGED <<stack, state, success, readings, counters, msg_payload,
                           pubvars, ghosts, tof_closes, exit_code, water>>
       /\ (pc = "vd_again" /\ distance = Some(0)) => ret'
       /\ (pc = "vl_again" /\ lux = Some(0)) => ret'
      ]_vars
C14_Witness ==
    /\ pc = "vd_done"
    /\ distance = Some(0)
    /\ ret
    /\ lux = Some(LIGHT_MAX_LUX + 1)

\* A unit cell names a known unit once stripped, whatever its case.
KnownUnit(c) ==
    \E k \in to_litre_keys : Lower(k) = Lower(Strip(PyStr(c)))
\* The pairs sizes_to_litres has to skip, among the first n.
SkippedPairs(n) ==
    {j \in 1..n : FloatOf(size_list[j]) = None \/ ~KnownUnit(unit_list[j])}
\* The volume of pair j, in microlitres.
PairVolume(j) ==
    FloatOf(size_list[j])[1] * to_litre(Lower(Strip(PyStr(unit_list[j]))))
RECURSIVE ConvertedTotal(_)
ConvertedTotal(n) ==
    IF n = 0 THEN 0
    ELSE ConvertedTotal(n - 1) + (IF n \in SkippedPairs(n) THEN 0 ELSE PairVolume(n))

\* C15: sizes_to_litres returns (total, skipped): skipped counts the pairs
\* whose size is no number or whose unit, stripped and whatever its case, is not
\* known; total is the sum of size * factor over the other pairs; the converted
\* pairs and the skipped ones together are all the pairs.
C15_SizesToLitres ==
    pc = "stl_done" =>
        LET n == Min(Len(size_list), Len(unit_list))
        IN  /\ result[2] = Cardinality(SkippedPairs(n))
            /\ result[1] = ConvertedTotal(n)
            /\ Len(converted_volumes) + result[2] = n
C15_Witness ==
    /\ pc = "stl_done"
    /\ size_list = <<StrCell(<<" ", "5", "0", " ">>), NoneCell>>
    /\ unit_list = <<StrCell(<<"M", "L">>), StrCell(<<"m", "l">>)>>
    /\ result = <<50000, 1>>

\* C16: when maybe_insert has returned, insert_to_sql was called once with the
\* given category and row if inserting was enabled and the connection string is
\* not empty, and was not called at all if the caller left the toggle to the
\* environment and CHEMINVENTORY_INSERT_TO_SQL is "False".
C16_InsertToggle ==
    pc = "mi_done" =>
        /\ (enabled = Some(TRUE) /\ connection_string \notin {None, Some(<<>>)})
             => insert_calls = <<<<category, new_row, connection_string[1]>>>>
        /\ (/\ enabled_arg = None
            /\ environ.CHEMINVENTORY_INSERT_TO_SQL = Some(<<"F", "a", "l", "s", "e">>))
             => insert_calls = <<>>

\* The HP columns whose flag in row r is above 0.
ActiveHp(r) == {h \in 1..Len(hp_cols) : df[r].HP[h] > 0}
\* The volume row r has, in microlitres.
RowVolume(r) == Size_numeric(df[r].Size) * unit_mult(df[r].Unit)
RECURSIVE RowSum(_, _)
RowSum(r, n) == IF n = 0 THEN 0 ELSE RowSum(r, n - 1) + allocated[r][n]

\* C17: when compute_hp_volume returns, every row with an active HP flag has
\* given each active HP column the same share and nothing to the others, the
\* shares adding up to the row's volume; a row with no active flag has given
\* nothing; each HP total is the sum of the rows' shares.
C17_EvenSplitNoDoubleCount ==
    pc = "hp_done" =>
        /\ \A r \in 1..Len(df) :
             /\ \A h \in 1..Len(hp_cols) :
                  IF h \in ActiveHp(r)
                  THEN allocated[r][h] * Cardinality(ActiveHp(r)) = RowVolume(r)
                  ELSE allocated[r][h] = 0
             /\ RowSum(r, Len(hp_cols)) = IF ActiveHp(r) = {} THEN 0 ELSE RowVolume(r)
        /\ \A h \in 1..Len(hp_cols) : res_df[h] = ColumnSum(h, Len(df))
C17_Witness ==
    /\ pc = "hp_done"
    /\ Len(df) = 2
    /\ df[1].HP = <<2, 2, 2>> /\ df[1].Size = NumberCell(6) /\ df[1].Unit = StrCell(<<"L">>)
    /\ df[2].HP = <<0, -1, 0>> /\ df[2].Size = NumberCell(6)
    /\ res_df = <<2000000, 2000000, 2000000>>

\* Edges countPulse was called for and has not yet added to count.
InFlight == IF cb_pc \in {"cb_lock", "cb_load", "cb_store"} THEN 1 ELSE 0

\* C18: at every moment the pulses detected so far are the counts the sampler
\* has taken plus the counter, plus the one edge whose callback has not yet
\* stored its increment; the sampler's load and reset happen with no store of
\* the callback between them.
C18_NoPulseLostOrDoubled ==
    /\ detected = taken + count + InFlight
    /\ mon_pc = "m_reset" => current_count = count
    /\ cb_pc = "cb_store" => cb_count = count
C18_Witness ==
    /\ detected = MaxPulses
    /\ cb_pc = "cb_idle"
    /\ taken = 3 /\ count = 1
    /\ mon_pc = "m_load"

\* C19: at the end of each 1-second tick of the single-tap gpio_monitoring the
\* stored rate is 1000 * p / (FLOW_RATE_FACTOR * 60) for the p pulses countPulse
\* registered during that second, and the pulse counter is back at 0.
C19_TickRateFromPulses ==
    [][(mon_pc = "t_sleep" /\ mon_pc' = "t_loop")
         => /\ temp_volume_val' = Rate(tick_pulses)
            /\ count' = 0
      ]_vars

\* C20: when the soft recovery of this tick has failed and consecutive_errors
\* then reaches max_consecutive_errors, the check of the counter invokes the
\* full reboot instead of carrying on to the next measurement.
C20_FailedRecoveryThenThresholdReboots ==
    [][(/\ pc = "check_errors"
        /\ last_recovery = "l_fail"
        /\ consecutive_errors >= max_consecutive_errors)
         => (pc' = "reboot_pi" \/ reboots' > reboots)
      ]_vars

\* C21: reboot_pi is invoked only on a tick whose 0.0 distance reading brought
\* consecutive_zero_distance to ZERO_DISTANCE_REBOOT_THRESHOLD and whose
\* recover_sensors call returned False; a zero-light streak, whatever its
\* length and whatever the outcome of its recovery, is followed by no reboot.
C21_RebootOnlyAfterFailedDistanceRecovery ==
    /\ pc = "reboot_pi"
         => /\ consecutive_zero_distance >= ZERO_DISTANCE_REBOOT_THRESHOLD
            /\ distance = Some(0)
            /\ last_recovery = "d_fail"
            /\ ~ret
    /\ (pc = "reboot_cmd" \/ reboots > 0)
         => /\ consecutive_zero_distance >= ZERO_DISTANCE_REBOOT_THRESHOLD
            /\ distance = Some(0)
    /\ (RecoveringFor("rec_ret_l") \/ last_recovery \in {"l_ok", "l_fail"})
         => (reboots = 0 /\ pc \notin {"reboot_pi", "reboot_cmd"})
C21_Witness ==
    /\ reboots = 1
    /\ consecutive_zero_light >= ZERO_LIGHT_REINIT_THRESHOLD
    /\ consecutive_zero_distance = ZERO_DISTANCE_REBOOT_THRESHOLD

\* C22 as stated: when initialize_sensors has returned False, at startup or
\* inside recover_sensors, state tof and ltr559 are both None.
C22_NothingOpenAfterFailedInit ==
    (pc \in {"run_after_init", "rec_after_init"} /\ ~ret)
        => (state.tof = "None" /\ state.ltr559 = "None")

\* C22 amended: when initialize_sensors has returned, it returned False exactly
\* when some sensor failed; each sensor that failed is None and each that
\* initialized stays set.  A sensor that is None is not read (its reading is
\* None), and both are None when the reboot command runs.
C22_FailedSensorIsNone ==
    /\ pc \in {"run_after_init", "rec_after_init"}
         => (ret <=> (state.tof # "None" /\ state.ltr559 # "None"))
    /\ (pc = "read_light" /\ state.tof = "None") => distance = None
    /\ (pc = "eval_distance" /\ state.ltr559 = "None") => lux = None
    /\ pc = "reboot_cmd" => (state.tof = "None" /\ state.ltr559 = "None")
C22_Witness ==
    /\ pc = "read_light"
    /\ state.tof = "None" /\ state.ltr559 = "dev"
    /\ consecutive_zero_light >= ZERO_LIGHT_REINIT_THRESHOLD

\* C23: in every state of the fumehood loop each fault-class counter lies
\* between 0 and its threshold inclusive.
C23_CountersWithinThreshold ==
    /\ consecutive_zero_distance \in 0..ZERO_DISTANCE_REBOOT_THRESHOLD
    /\ consecutive_zero_light \in 0..ZERO_LIGHT_REINIT_THRESHOLD
    /\ consecutive_errors \in 0..max_consecutive_errors

\* main's loop is over: the main thread is past the while statement, in run()'s
\* finally clause, or gone.
LoopStopped ==
    pc \in {"main_done", "run_finally", "run_exit", "terminated"} \/ InFinally

C25_PartialSumOnShutdown ==
    [][/\ (~shutdown_flag /\ shutdown_flag' /\ pc \in {"tv_for", "tv_sleep"})
            => /\ pc' \in {"tv_for", "tv_sleep", "tv_sum"}
               /\ vol_arr' = vol_arr
               /\ stack' = stack
       /\ (shutdown_flag /\ pc = "tv_for") => pc' = "tv_sum"
       /\ (shutdown_flag /\ pc = "tv_sum")
            => (total_volume_val' = SeqSum(vol_arr) /\ water_volume' = SeqSum(vol_arr))
      ]_vars

\* The row a published payload stands for.
RowOf(m) ==
    [LabId |-> m.payload.labId, SublabId |-> m.payload.sublabId,
     Distance |-> m.payload.distance, Light |-> m.payload.light,
     Airflow |-> m.payload.airflow, Timestamp |-> m.ts]

\* C26: once a message fumehood.py published has been handled by a subscriber,
\* that subscriber has run exactly one fumehood INSERT for it, and each row
\* added carries the message's labId, sublabId, distance, light, airflow and
\* timestamp; this holds for the SQL Server and the SQLite subscriber alike.
C26_OneRowPerMessage ==
    \A sub \in {"sqlserver", "sqlite"} :
        LET n == IF handled[sub] THEN Len(published) ELSE Len(published) - 1
        IN  /\ Len(fumehood_rows[sub]) + insert_errors[sub] = n
            /\ \A j \in 1..Len(fumehood_rows[sub]) :
                 \E m \in 1..Len(published) :
                    fumehood_rows[sub][j] = RowOf(published[m])

\* C27: a missing .env file and an empty MQTT_SERVER end the process with
\* status 1 at the module's top, before run(); when every sensor failed to
\* initialize run() exits with status 1 without entering main's loop, and when
\* at least one sensor initialized the loop is entered.  Status 1 is set at no
\* other place, and once it is set no sensor is read and nothing is published.
C27_FatalConfigurationExits ==
    /\ []((pc # "module"
             /\ (~config.env_exists \/ config.MQTT_SERVER = <<>>))
            => (pc = "terminated" /\ exit_code = "1" /\ distance = None
                  /\ lux = None /\ msg_payload = None /\ attempts = 0))
    /\ [](exit_code = "1" => (LoopStopped /\ msg_payload = None /\ attempts = 0
                                /\ distance = None /\ lux = None))
    /\ [][/\ (pc = "run_after_init" /\ signals' = signals)
               => IF state.tof = "None" /\ state.ltr559 = "None"
                  THEN exit_code' = "1" /\ pc' = "run_finally"
                  ELSE exit_code' = "running" /\ pc' = "loop"
          /\ (exit_code' = "1" /\ exit_code # "1")
               => pc \in {"module", "run_after_init"}
          /\ (exit_code = "1" /\ signals' = signals) => exit_code' = "1"
         ]_vars
C27_Witness ==
    /\ pc = "terminated"
    /\ exit_code = "1"
    /\ config.env_exists /\ config.MQTT_SERVER # <<>>
    /\ state.tof = "None" /\ state.ltr559 = "None"

\* C28: on a tick in which recover_sensors has been invoked, whether it
\* returned True or False, no message is built and publish_mqtt is not called.
C28_NoPublishOnRecoveryTick ==
    (last_recovery # "none" \/ InRecovery)
        => pc \notin PublishLabels \cup {"pub_ret"}

\* C29: each opened distance-sensor handle has stop_ranging/close called on it
\* at most once, and a handle on which it was called is not read, also when
\* the signal handler runs cleanup_sensors while the main thread is inside
\* cleanup_sensors, recover_sensors, initialize_sensors or a sensor read.
C29_HandleClosedOnce ==
    /\ tof_closes <= 1
    /\ (pc = "read_distance" /\ state.tof # "None") => tof_closes = 0

\* C30: when a tick is over whose distance (respectively light) read failed
\* and gave None, consecutive_zero_distance (respectively
\* consecutive_zero_light) is 0; so recover_sensors is invoked for a class only
\* when the readings of that class since the last read error were a full
\* streak of 0.0.
C30_ReadErrorResetsStreak ==
    /\ (pc \in {"loop", "sleep"} /\ distance = None) => consecutive_zero_distance = 0
    /\ (pc \in {"loop", "sleep"} /\ lux = None) => consecutive_zero_light = 0
    /\ InvokedFor("rec_ret_d") => zrun.d >= ZERO_DISTANCE_REBOOT_THRESHOLD - 1
    /\ InvokedFor("rec_ret_l") => zrun.l >= ZERO_LIGHT_REINIT_THRESHOLD - 1

====
